---- MODULE Spec2Model ----
(***************************************************************************)
(* Model of the go-workflows durable execution core: the Redis task queue  *)
(* (backend/redis/taskqueue), the event-stream helpers (backend/redis/     *)
(* events.go) and the backend operations built on them.                    *)
(*                                                                         *)
(* Redis data types are modelled by what the commands used in the source   *)
(* do: a stream is a sequence of entries in id order together with the     *)
(* last generated id; a consumer group is the last-delivered id plus the   *)
(* pending entries list (PEL), which records for every delivered and not   *)
(* yet acknowledged entry its owner and its idle time.                     *)
(***************************************************************************)
EXTENDS Integers, Sequences, FiniteSets, TLC

\* ------------------------------------------------------------------ bounds
\* Lock timeout of a task, in clock ticks (the lockTimeout argument of Dequeue).
LockTimeout == 1
\* Largest stream id the task streams hand out (caps the number of enqueues).
MaxTaskId == 2
\* Number of events clients and other instances ever send.
MaxEvents == 2
\* Longest history kept per instance.
MaxHist == 4
\* Deliveries counted per pending entry: MaxDeliveries stands for that many or more.
MaxDeliveries == 2
\* Events handlers still route to other instances after the clients' last one.
MaxRouted == 1

\* options.WorkflowPollers of the worker.
WorkflowPollers == 1
\* options.MaxParallelWorkflowTasks of the worker when it is not 0.
MaxParallelWorkflowTasks == 1
\* Workflow tasks the backend hands to the pollers of one worker.
MaxWorkerTasks == 2

Instances == {"i1", "i2"}
Workers == {"w1", "w2"}
ActivityWorkers == {"a1"}

\* ------------------------------------------------------------ small helpers
Nil == "nil"
NoTask == [taskID |-> 0]
\* task.Workflow{} as passed by CompleteWorkflowTask_ReturnsErrorIfNotLocked:
\* the zero task, whose ID is the empty string (modelled as stream id 0).
EmptyTask == [taskID |-> 0, id |-> Nil, data |-> Nil, newEvents |-> <<>>, lastPending |-> 0]

SeqToSet(s) == {s[k] : k \in 1..Len(s)}

RECURSIVE SelectSeqBy(_, _, _)
\* The subsequence of s (entries with field msgid) whose msgid is above `after`.
SelectSeqBy(s, after, k) ==
    IF k > Len(s) THEN <<>>
    ELSE IF s[k].msgid > after THEN <<s[k]>> \o SelectSeqBy(s, after, k + 1)
         ELSE SelectSeqBy(s, after, k + 1)

\* ------------------------------------------------------------ serialization
\* json.Marshal of the *T handed to Enqueue: a nil pointer is written as the
\* text "null", a value as a JSON object.
jsonMarshal(data) ==
    IF data.null THEN [json |-> "null"] ELSE [json |-> "object", value |-> data]

\* json.Unmarshal into a fresh `var t T`: "null" leaves t the zero value.
jsonUnmarshal(ds, zero) ==
    IF ds.json = "null" THEN zero ELSE ds.value

NilData == [null |-> TRUE]
\* workflowTaskData{LastPendingEventMessageID}
workflowTaskData(last) == [null |-> FALSE, LastPendingEventMessageID |-> last]
\* activityData{Instance, ID, Event}
activityData(inst, id, ev) == [null |-> FALSE, Instance |-> inst, ID |-> id, Event |-> ev]

ZeroWorkflowTaskData == workflowTaskData(0)
ZeroActivityData == activityData(Nil, 0, [id |-> 0, type |-> Nil, seq |-> 0])

\* Event ids are unique (uuid.NewString): the n-th event sent to an instance,
\* or the event an executor creates for place n of its history.
EventID(i, n) == [inst |-> i, by |-> "client", n |-> n]
ExecutorEventID(i, n) == [inst |-> i, by |-> "executor", n |-> n]

\* ---------------------------------------------------------------- taskqueue
\* The delivery counter of a pending entry after one more delivery.
Redelivered(e) == IF e.count < MaxDeliveries THEN e.count + 1 ELSE e.count

\* A task queue: the dedup set (setKey), the task stream (streamKey) with its
\* last generated id, and the consumer group "task-workers" (last delivered
\* id and pending entries list).
EmptyQueue == [set |-> {}, stream |-> <<>>, lastID |-> 0, last |-> 0, pel |-> {}]

\* enqueueCmd without the SADD check: every call adds a stream entry.
enqueueCmdNoDedup(q, id, ds) ==
    [q EXCEPT !.set = @ \cup {id},
              !.stream = Append(@, [taskID |-> q.lastID + 1, id |-> id, data |-> ds]),
              !.lastID = @ + 1]

\* enqueueCmd without the XADD: the id enters the set, no task is queued.
enqueueCmdSetOnly(q, id, ds) == [q EXCEPT !.set = @ \cup {id}]

\* The Lua script enqueueCmd: SADD first; a duplicate id adds nothing.
enqueueCmd(q, id, ds) ==
    IF id \in q.set
    THEN q
    ELSE [q EXCEPT !.set = @ \cup {id},
                   !.stream = Append(@, [taskID |-> q.lastID + 1, id |-> id, data |-> ds]),
                   !.lastID = @ + 1]

Enqueue(q, id, data) == enqueueCmd(q, id, jsonMarshal(data))

msgToTaskItem(msg, zero) ==
    [taskID |-> msg.taskID, id |-> msg.id, data |-> jsonUnmarshal(msg.data, zero)]

StreamEntry(q, taskID) == CHOOSE m \in SeqToSet(q.stream) : m.taskID = taskID
InStream(q, taskID) == \E m \in SeqToSet(q.stream) : m.taskID = taskID
PelEntry(q, taskID) == CHOOSE e \in q.pel : e.taskID = taskID
InPel(q, taskID) == \E e \in q.pel : e.taskID = taskID

\* recover with XAUTOCLAIM MinIdle 0: any pending entry is claimed.
recoverAnyIdle(q, w, idleTimeout) ==
    IF q.pel = {}
    THEN [q |-> q, item |-> NoTask]
    ELSE LET e == CHOOSE x \in q.pel : \A y \in q.pel : x.taskID <= y.taskID IN
         [q |-> [q EXCEPT !.pel = (@ \ {e}) \cup
                                  {[taskID |-> e.taskID, consumer |-> w, idle |-> 0,
                                    count |-> Redelivered(e)]}],
          item |-> StreamEntry(q, e.taskID)]

\* recover that claims nothing: every pending entry counts as still locked.
recoverNothing(q, w, idleTimeout) == [q |-> q, item |-> NoTask]

\* XAUTOCLAIM ... MinIdle idleTimeout Count 1 Start 0: the first pending entry
\* (in id order) that has been idle for at least idleTimeout is handed to the
\* calling consumer and its idle time is reset.
recover(q, w, idleTimeout) ==
    LET idle == {e \in q.pel : e.idle >= idleTimeout} IN
    IF idle = {}
    THEN [q |-> q, item |-> NoTask]
    ELSE LET e == CHOOSE x \in idle : \A y \in idle : x.taskID <= y.taskID IN
         [q |-> [q EXCEPT !.pel = (@ \ {e}) \cup
                                  {[taskID |-> e.taskID, consumer |-> w, idle |-> 0,
                                    count |-> Redelivered(e)]}],
          item |-> StreamEntry(q, e.taskID)]

\* XREADGROUP with "0" in place of ">": the first entry of the stream is handed
\* out again, delivered before or not.
XReadGroupFromStart(q, w) ==
    IF q.stream = <<>>
    THEN [q |-> q, item |-> NoTask]
    ELSE LET m == q.stream[1] IN
         [q |-> [q EXCEPT !.last = IF m.taskID > @ THEN m.taskID ELSE @,
                          !.pel = {e \in @ : e.taskID # m.taskID} \cup
                                  {[taskID |-> m.taskID, consumer |-> w, idle |-> 0,
                                    count |-> 1]}],
          item |-> m]

\* XREADGROUP with NOACK: the entry is handed out without entering the pending
\* entries list.
XReadGroupNoAck(q, w) ==
    LET new == {m \in SeqToSet(q.stream) : m.taskID > q.last} IN
    IF new = {}
    THEN [q |-> q, item |-> NoTask]
    ELSE LET m == CHOOSE x \in new : \A y \in new : x.taskID <= y.taskID IN
         [q |-> [q EXCEPT !.last = m.taskID], item |-> m]

\* XREADGROUP ... Streams streamKey ">" Count 1: the first entry never delivered
\* to the group, which enters the pending entries list under the consumer.
XReadGroup(q, w) ==
    LET new == {m \in SeqToSet(q.stream) : m.taskID > q.last} IN
    IF new = {}
    THEN [q |-> q, item |-> NoTask]
    ELSE LET m == CHOOSE x \in new : \A y \in new : x.taskID <= y.taskID IN
         [q |-> [q EXCEPT !.last = m.taskID,
                          !.pel = @ \cup {[taskID |-> m.taskID, consumer |-> w, idle |-> 0,
                                            count |-> 1]}],
          item |-> m]

\* XCLAIM that leaves the idle time of the entry as it was.
ExtendKeepIdle(q, w, taskID) ==
    IF InPel(q, taskID)
    THEN [q EXCEPT !.pel = (@ \ {PelEntry(q, taskID)}) \cup
                           {[taskID |-> taskID, consumer |-> w,
                             idle |-> PelEntry(q, taskID).idle,
                             count |-> Redelivered(PelEntry(q, taskID))]}]
    ELSE q

\* XCLAIM taskID MinIdle 0 (not JUSTID): a pending entry changes hands to the
\* caller with its idle time reset and its delivery counter raised; an id that
\* is not pending is left alone. No outcome of the command is an error.
Extend(q, w, taskID) ==
    IF InPel(q, taskID)
    THEN [q EXCEPT !.pel = (@ \ {PelEntry(q, taskID)}) \cup
                           {[taskID |-> taskID, consumer |-> w, idle |-> 0,
                             count |-> Redelivered(PelEntry(q, taskID))]}]
    ELSE q

\* completeCmd that treats an id missing from the stream as already done.
completeCmdNoError(q, taskID) ==
    IF ~InStream(q, taskID)
    THEN [q |-> q, err |-> FALSE]
    ELSE LET id == StreamEntry(q, taskID).id IN
         [q |-> [q EXCEPT !.set = @ \ {id},
                          !.pel = {e \in @ : e.taskID # taskID},
                          !.stream = SelectSeq(@, LAMBDA m : m.taskID # taskID)],
          err |-> FALSE]

\* completeCmd without the SREM: the id stays in the dedup set.
completeCmdNoSrem(q, taskID) ==
    IF ~InStream(q, taskID)
    THEN [q |-> q, err |-> TRUE]
    ELSE [q |-> [q EXCEPT !.pel = {e \in @ : e.taskID # taskID},
                          !.stream = SelectSeq(@, LAMBDA m : m.taskID # taskID)],
          err |-> FALSE]

\* The Lua script completeCmd. XRANGE of an id that is not in the stream gives
\* an empty table (never nil), so task[1][2][2] raises and the script fails
\* before SREM; otherwise SREM, XACK and XDEL all run.
completeCmd(q, taskID) ==
    IF ~InStream(q, taskID)
    THEN [q |-> q, err |-> TRUE]
    ELSE LET id == StreamEntry(q, taskID).id IN
         [q |-> [q EXCEPT !.set = @ \ {id},
                          !.pel = {e \in @ : e.taskID # taskID},
                          !.stream = SelectSeq(@, LAMBDA m : m.taskID # taskID)],
          err |-> FALSE]

Complete(q, taskID) == completeCmd(q, taskID)

\* Idle time of every pending entry grows with the clock; once an entry is idle
\* for LockTimeout the exact value no longer matters to any command.
Age(q) ==
    [q EXCEPT !.pel = {[e EXCEPT !.idle = IF @ < LockTimeout THEN @ + 1 ELSE @]
                       : e \in @}]


\* ------------------------------------------------------------------ events
\* history.NewPendingEvent: a fresh event that has no sequence id yet.
NewPendingEvent(id, type) == [id |-> id, type |-> type, seq |-> 0]

\* A cancellation event of the type sub-workflows are cancelled with.
NewWorkflowCancellationEventRequested(id) ==
    NewPendingEvent(id, "SubWorkflowCancellationRequested")

\* history.NewWorkflowCancellationEvent: a pending ExecutionCanceled event.
NewWorkflowCancellationEvent(id) == NewPendingEvent(id, "ExecutionCanceled")

\* json.Marshal / json.Unmarshal of a history.Event.
marshalEvent(ev) == [json |-> "object", value |-> ev]
unmarshalEvent(s) == s.value

\* addEventsToStreamCmd walking ARGV backwards.
addEventsToStreamCmdReversed(stream, eventsData) ==
    stream \o [k \in 1..Len(eventsData) |-> eventsData[Len(eventsData) + 1 - k]]

\* addEventsToStreamCmd with the XADD after the loop: only the last argument
\* is added.
addEventsToStreamCmdLastOnly(stream, eventsData) ==
    IF eventsData = <<>> THEN stream
    ELSE Append(stream, eventsData[Len(eventsData)])

\* The Lua script addEventsToStreamCmd: one XADD per argument, in order.
RECURSIVE addEventsToStreamCmd(_, _)
addEventsToStreamCmd(stream, eventsData) ==
    IF eventsData = <<>> THEN stream
    ELSE addEventsToStreamCmd(Append(stream, Head(eventsData)), Tail(eventsData))

addEventsToStreamP(stream, events) ==
    addEventsToStreamCmd(stream, [k \in 1..Len(events) |-> marshalEvent(events[k])])

\* addEventToStreamP that puts the event in front of the stream.
addEventToStreamPFront(stream, lastID, event) ==
    <<[msgid |-> lastID + 1, event |-> marshalEvent(event)]>> \o stream

\* addEventToStreamP on a pending stream: XADD "*" appends under a new id.
addEventToStreamP(stream, lastID, event) ==
    Append(stream, [msgid |-> lastID + 1, event |-> marshalEvent(event)])

\* ------------------------------------------------------------------- state
VARIABLES
    wfq,          \* the workflow task queue ("workflows")
    actq,         \* the activity task queue ("activities")
    instance,     \* instance id -> "None" | "Active" | "Finished"
    history,      \* instance id -> history stream (marshalled events)
    pending,      \* instance id -> pending stream ([msgid, event])
    pendingLast,  \* instance id -> last id generated in its pending stream
    task,         \* worker -> the workflow task it was handed, or NoTask
    pc,           \* worker -> where its GetWorkflowTask call stands
    ret,          \* the backend call of the last step: the task it returned or
                  \* was given, and whether it failed
    evCount,      \* instance id -> number of events sent to it
    appended      \* instance id -> executed events of the successful checkpoints

\* The state of one worker process (internal/worker/workflow.go).
VARIABLES
    options,        \* its Options
    ctx,            \* the root context given to Start: "live" | "done"
    eviction,       \* the cache's eviction goroutine: "none" | "running" | "done"
    runPoll,        \* poller goroutine -> where it stands and the task it holds
    runDispatcher,  \* the dispatcher goroutine and the task it took off the channel
    sem,            \* occupied slots of the dispatcher's semaphore
    wg,             \* the WaitGroup counter
    handler,         \* task ID -> the handler goroutine of that task
    heartbeatTask,  \* task ID -> its heartbeat goroutine:
                    \* "none" | "running" | "cancelled" | "done"
    cache,          \* workflow instance -> the executor cached for it, 0 for none
    panicked,       \* a goroutine panicked: the process is gone
    polled,         \* tasks the backend has handed to the pollers so far
    executors       \* executors built by workflow.NewExecutor so far

VARIABLES
    future,         \* the future events: the sorted set "future-events" and the
                    \* payload stored under each of its keys
    now,            \* the wall clock
    call            \* the last call of a function of the client or of the
                    \* activity executor: its arguments and what it returned

\* Errors are values: nil, the backend's sentinel, and errors that carry a
\* message and possibly the error they wrap.
NoError == [msg |-> "nil"]

ErrInstanceNotFound == [msg |-> "workflow instance not found"]

ErrInstanceAlreadyExists == [msg |-> "workflow instance already exists"]

ErrCompleteTask == [msg |-> "completing task"]

Errorf(msg, err) == [msg |-> msg, wraps |-> err]

\* redis.Nil, the reply of a blocking read whose block timeout passed, and the
\* error of a command whose context ended first.
redisNil == [msg |-> "redis: nil"]

ErrContextDone == [msg |-> "context deadline exceeded"]

\* What Dequeue returns for the error of its XREADGROUP: redis.Nil is no error,
\* every other error is returned wrapped.
dequeueError(err) ==
    IF err # NoError /\ err # redisNil THEN Errorf("dequeueing task", err) ELSE NoError

\* What a backend call returned: the error, whether there is one, and the
\* task returned or passed in.
Ret(op, error, t) == [op |-> op, err |-> error # NoError, error |-> error, task |-> t]

NoRet == Ret("none", NoError, NoTask)

\* The backend and its callers.
clientVars == <<wfq, actq, instance, history, pending, pendingLast, task, pc, ret,
                evCount, appended>>

workerVars == <<options, ctx, eviction, runPoll, runDispatcher, sem, wg, handler,
                heartbeatTask, cache, panicked, polled, executors>>

\* What the backend operations of the model leave alone.
otherVars == <<workerVars, future, now, call>>

\* What the worker's goroutines leave alone.
outsideWorker == <<clientVars, future, now, call>>

NoCall == [op |-> "none"]

vars == <<clientVars, otherVars>>

\* A worker that has not been started, with options o.
InitWorker(o) ==
    /\ options = o
    /\ ctx = "live"
    /\ eviction = "none"
    /\ runPoll = <<>>
    /\ runDispatcher = [pc |-> "none", t |-> NoTask]
    /\ sem = 0
    /\ wg = 0
    /\ handler = [k \in 1..MaxWorkerTasks |-> [pc |-> "none", t |-> NoTask, executor |-> 0]]
    /\ heartbeatTask = [k \in 1..MaxWorkerTasks |-> "none"]
    /\ cache = [i \in Instances |-> 0]
    /\ panicked = FALSE
    /\ polled = 0
    /\ executors = 0

DefaultOptions ==
    [WorkflowPollers |-> WorkflowPollers, MaxParallelWorkflowTasks |-> 0,
     HeartbeatWorkflowTasks |-> FALSE]

\* The backend before any call.
InitBackend ==
    /\ wfq = EmptyQueue
    /\ actq = EmptyQueue
    /\ instance = [i \in Instances |-> "None"]
    /\ history = [i \in Instances |-> <<>>]
    /\ pending = [i \in Instances |-> <<>>]
    /\ pendingLast = [i \in Instances |-> 0]
    /\ task = [w \in Workers \cup ActivityWorkers |-> NoTask]
    /\ pc = [w \in Workers \cup ActivityWorkers |-> "idle"]
    /\ ret = NoRet
    /\ evCount = [i \in Instances |-> 0]
    /\ appended = [i \in Instances |-> <<>>]
    /\ future = {}
    /\ now = 0

backendVars == <<wfq, actq, instance, history, pending, pendingLast>>

Init ==
    /\ InitBackend
    /\ InitWorker(DefaultOptions)
    /\ call = NoCall

\* GetWorkflowInstanceHistory(instance, nil): the whole history, unmarshalled.
GetWorkflowInstanceHistory(i) ==
    [k \in 1..Len(history[i]) |-> unmarshalEvent(history[i][k])]

RECURSIVE Sum(_, _)
Sum(f, S) == IF S = {} THEN 0 ELSE LET x == CHOOSE y \in S : TRUE IN f[x] + Sum(f, S \ {x})

\* Events created so far.
Events == Sum(evCount, Instances)

PendingEvents(i) ==
    [k \in 1..Len(pending[i]) |-> unmarshalEvent(pending[i][k].event)]

LastPendingID(i) ==
    IF pending[i] = <<>> THEN 0 ELSE pending[i][Len(pending[i])].msgid

\* ---------------------------------------------------------------- clients
\* CreateWorkflowInstance without the check for an existing instance.
CreateWorkflowInstanceNoCheck(i) ==
    /\ Events < MaxEvents
    /\ (i \in wfq.set \/ wfq.lastID < MaxTaskId)
    /\ LET ev == NewPendingEvent(EventID(i, evCount[i] + 1), "ExecutionStarted") IN
       /\ pending' = [pending EXCEPT ![i] = addEventToStreamP(@, pendingLast[i], ev)]
       /\ pendingLast' = [pendingLast EXCEPT ![i] = @ + 1]
       /\ wfq' = Enqueue(wfq, i, workflowTaskData(pendingLast[i] + 1))
    /\ instance' = [instance EXCEPT ![i] = "Active"]
    /\ evCount' = [evCount EXCEPT ![i] = @ + 1]
    /\ ret' = Ret("CreateWorkflowInstance", NoError, NoTask)
    /\ UNCHANGED <<actq, history, task, pc, appended>>
    /\ UNCHANGED otherVars

\* CreateWorkflowInstance: the start event becomes the first pending event
\* and the instance is put on the workflow queue; an existing instance is an
\* error and nothing changes.
CreateWorkflowInstance(i) ==
    /\ IF instance[i] # "None"
       THEN /\ ret' = Ret("CreateWorkflowInstance", ErrInstanceAlreadyExists, NoTask)
            /\ UNCHANGED <<backendVars, task, pc, evCount, appended>>
       ELSE /\ Events < MaxEvents
            /\ wfq.lastID < MaxTaskId
            /\ LET ev == NewPendingEvent(EventID(i, evCount[i] + 1), "ExecutionStarted") IN
               /\ pending' = [pending EXCEPT ![i] = addEventToStreamP(@, pendingLast[i], ev)]
               /\ pendingLast' = [pendingLast EXCEPT ![i] = @ + 1]
               /\ wfq' = Enqueue(wfq, i, workflowTaskData(pendingLast[i] + 1))
            /\ instance' = [instance EXCEPT ![i] = "Active"]
            /\ evCount' = [evCount EXCEPT ![i] = @ + 1]
            /\ ret' = Ret("CreateWorkflowInstance", NoError, NoTask)
            /\ UNCHANGED <<actq, history, task, pc, appended>>
    /\ UNCHANGED otherVars

\* SignalWorkflow: appends SignalReceived to the pending stream and enqueues
\* the instance; ErrInstanceNotFound when there is no active instance.
SignalWorkflow(i) ==
    /\ IF instance[i] # "Active"
       THEN /\ ret' = Ret("SignalWorkflow", ErrInstanceNotFound, NoTask)
            /\ UNCHANGED <<backendVars, task, pc, evCount, appended>>
       ELSE /\ Events < MaxEvents
            /\ (i \in wfq.set \/ wfq.lastID < MaxTaskId)
            /\ LET ev == NewPendingEvent(EventID(i, evCount[i] + 1), "SignalReceived") IN
               /\ pending' = [pending EXCEPT ![i] = addEventToStreamP(@, pendingLast[i], ev)]
               /\ pendingLast' = [pendingLast EXCEPT ![i] = @ + 1]
               /\ wfq' = Enqueue(wfq, i, workflowTaskData(pendingLast[i] + 1))
            /\ evCount' = [evCount EXCEPT ![i] = @ + 1]
            /\ ret' = Ret("SignalWorkflow", NoError, NoTask)
            /\ UNCHANGED <<actq, instance, history, task, pc, appended>>
    /\ UNCHANGED otherVars

\* CancelWorkflowInstance: appends the cancellation event to the pending
\* stream and enqueues the instance; ErrInstanceNotFound when there is no
\* active instance.
CancelWorkflowInstance(i) ==
    /\ IF instance[i] # "Active"
       THEN /\ ret' = Ret("CancelWorkflowInstance", ErrInstanceNotFound, NoTask)
            /\ UNCHANGED <<backendVars, task, pc, evCount, appended>>
       ELSE /\ Events < MaxEvents
            /\ (i \in wfq.set \/ wfq.lastID < MaxTaskId)
            /\ LET ev == NewWorkflowCancellationEvent(EventID(i, evCount[i] + 1)) IN
               /\ pending' = [pending EXCEPT ![i] = addEventToStreamP(@, pendingLast[i], ev)]
               /\ pendingLast' = [pendingLast EXCEPT ![i] = @ + 1]
               /\ wfq' = Enqueue(wfq, i, workflowTaskData(pendingLast[i] + 1))
            /\ evCount' = [evCount EXCEPT ![i] = @ + 1]
            /\ ret' = Ret("CancelWorkflowInstance", NoError, NoTask)
            /\ UNCHANGED <<actq, instance, history, task, pc, appended>>
    /\ UNCHANGED otherVars


\* client.SignalWorkflow wrapping the backend's error as
\* client.CreateWorkflowInstance does.
clientSignalWorkflowWrapped(err) ==
    IF err # NoError THEN Errorf("signaling workflow", err) ELSE NoError

\* What the client returns for the backend's result: CreateWorkflowInstance
\* wraps an error, SignalWorkflow and CancelWorkflowInstance return it as it
\* is.
clientCreateWorkflowInstance(err) ==
    IF err # NoError THEN Errorf("creating workflow instance", err) ELSE NoError

clientSignalWorkflow(err) == IF err # NoError THEN err ELSE NoError

clientCancelWorkflowInstance(err) == err

ClientError(r) ==
    CASE r.op = "CreateWorkflowInstance" -> clientCreateWorkflowInstance(r.error)
      [] r.op = "SignalWorkflow" -> clientSignalWorkflow(r.error)
      [] r.op = "CancelWorkflowInstance" -> clientCancelWorkflowInstance(r.error)
      [] OTHER -> r.error

\* ---------------------------------------------------------------- workers
\* The task.Workflow built from a dequeued item: the new events are the
\* pending stream up to its tail, whose id is remembered for the checkpoint.
WorkflowTask(item) ==
    LET t == msgToTaskItem(item, ZeroWorkflowTaskData) IN
    [taskID |-> t.taskID, id |-> t.id, data |-> t.data,
     newEvents |-> PendingEvents(t.id), lastPending |-> LastPendingID(t.id)]

\* Dequeue, first half: recover an abandoned task (XAUTOCLAIM); when there is
\* none the call goes on to read new tasks.
GetWorkflowTaskRecover(w) ==
    /\ pc[w] = "idle"
    /\ task[w] = NoTask
    /\ LET r == recover(wfq, w, LockTimeout) IN
       IF r.item # NoTask
       THEN /\ wfq' = r.q
            /\ task' = [task EXCEPT ![w] = WorkflowTask(r.item)]
            /\ ret' = Ret("GetWorkflowTask", NoError, WorkflowTask(r.item))
            /\ UNCHANGED pc
       ELSE /\ pc' = [pc EXCEPT ![w] = "read"]
            /\ ret' = NoRet
            /\ UNCHANGED <<wfq, task>>
    /\ UNCHANGED <<actq, instance, history, pending, pendingLast, evCount, appended>>
    /\ UNCHANGED otherVars

\* Dequeue, second half: XREADGROUP for a task never delivered before; nil and
\* no error when the block timeout passes without one.
GetWorkflowTaskRead(w) ==
    /\ pc[w] = "read"
    /\ LET r == XReadGroup(wfq, w)
           t == IF r.item = NoTask THEN NoTask ELSE WorkflowTask(r.item)
       IN /\ wfq' = r.q
          /\ task' = [task EXCEPT ![w] = t]
          /\ ret' = Ret("GetWorkflowTask", NoError, t)
    /\ pc' = [pc EXCEPT ![w] = "idle"]
    /\ UNCHANGED <<actq, instance, history, pending, pendingLast, evCount, appended>>
    /\ UNCHANGED otherVars

\* ExtendWorkflowTask: re-claims the task for the caller.
ExtendWorkflowTask(w) ==
    /\ pc[w] = "idle"
    /\ task[w] # NoTask
    /\ wfq' = Extend(wfq, w, task[w].taskID)
    /\ ret' = Ret("ExtendWorkflowTask", NoError, [taskID |-> task[w].taskID])
    /\ UNCHANGED <<actq, instance, history, pending, pendingLast, task, pc, evCount,
                   appended>>
    /\ UNCHANGED otherVars

\* Time passes: every pending entry has been idle one tick longer.
Tick ==
    /\ \E e \in wfq.pel \cup actq.pel : e.idle < LockTimeout
    /\ wfq' = Age(wfq)
    /\ actq' = Age(actq)
    /\ ret' = NoRet
    /\ UNCHANGED <<instance, history, pending, pendingLast, task, pc,
                   evCount, appended>>
    /\ UNCHANGED otherVars


\* -------------------------------------------------------------- checkpoint
Backend == [wfq |-> wfq, actq |-> actq, instance |-> instance, history |-> history,
            pending |-> pending, pendingLast |-> pendingLast]

LastSequenceID(h) == IF h = <<>> THEN 0 ELSE unmarshalEvent(h[Len(h)]).seq

\* The checkpoint gives the executed events the sequence ids that follow the
\* history's tail.
AssignSequenceIDs(events, tail) ==
    [k \in 1..Len(events) |-> [events[k] EXCEPT !.seq = tail + k]]

\* Every activity event is enqueued on the activity queue under its event id.
RECURSIVE EnqueueActivities(_, _, _)
EnqueueActivities(q, i, events) ==
    IF events = <<>> THEN q
    ELSE EnqueueActivities(
             Enqueue(q, Head(events).id, activityData(i, Head(events).id, Head(events))),
             i, Tail(events))

\* Every workflow event goes to the pending stream of the instance it is
\* addressed to, which is created by ExecutionStarted and put on the queue.
RECURSIVE RouteWorkflowEvents(_, _)
RouteWorkflowEvents(b, wfevs) ==
    IF wfevs = <<>> THEN b
    ELSE LET m == Head(wfevs)
             j == m.target
             b1 == [b EXCEPT
                      !.pending[j] = addEventToStreamP(@, b.pendingLast[j], m.event),
                      !.pendingLast[j] = @ + 1,
                      !.instance[j] = IF m.event.type = "ExecutionStarted" THEN "Active" ELSE @,
                      !.wfq = Enqueue(@, j, workflowTaskData(b.pendingLast[j] + 1))]
         IN RouteWorkflowEvents(b1, Tail(wfevs))

\* removePendingEventsCmd: the pending stream loses the entries up to the id
\* recorded when the task was handed out.
removePendingEvents(stream, lastPending) == SelectSeqBy(stream, lastPending, 1)

\* CompleteWorkflowTask as a pipeline without rollback: the history, pending,
\* state and activity writes are applied even when the queue's Complete fails.
CompleteWorkflowTaskPipelined(b, t, i, final, executed, acts, wfevs) ==
    LET c == Complete(b.wfq, t.taskID) IN
    IF b.instance[i] = "None"
    THEN [b |-> b, err |-> TRUE]
    ELSE LET b1 == [b EXCEPT
                      !.history[i] = addEventsToStreamP(
                                         @, AssignSequenceIDs(executed, LastSequenceID(@))),
                      !.pending[i] = IF final = "Finished" THEN <<>>
                                     ELSE removePendingEvents(@, t.lastPending),
                      !.instance[i] = final,
                      !.actq = EnqueueActivities(@, i, acts)]
             b2 == RouteWorkflowEvents(b1, wfevs)
         IN [b |-> [b2 EXCEPT !.wfq = Complete(@, t.taskID).q], err |-> c.err]

\* CompleteWorkflowTask as one all-or-nothing step on the backend state b:
\* the new backend state and whether the call returns an error.
CompleteWorkflowTaskTx(b, t, i, final, executed, acts, wfevs) ==
    LET c == Complete(b.wfq, t.taskID) IN
    IF b.instance[i] = "None" \/ c.err
    THEN [b |-> b, err |-> TRUE]
    ELSE LET b1 == [b EXCEPT
                      !.history[i] = addEventsToStreamP(
                                         @, AssignSequenceIDs(executed, LastSequenceID(@))),
                      !.pending[i] = IF final = "Finished" THEN <<>>
                                     ELSE removePendingEvents(@, t.lastPending),
                      !.instance[i] = final,
                      !.actq = EnqueueActivities(@, i, acts)]
             b2 == RouteWorkflowEvents(b1, wfevs)
         IN [b |-> [b2 EXCEPT !.wfq = Complete(@, t.taskID).q], err |-> FALSE]

\* What a handler passes to the checkpoint. "replay" hands the new events back
\* as they came (startWorkflow in the backend tests); "task" and "activity"
\* put a WorkflowTaskStarted marker before them and, for "activity", one
\* ActivityScheduled event after them.
ExecutedEvents(t, i, mode) ==
    LET n == Len(history[i])
        started == NewPendingEvent(ExecutorEventID(i, n + 1), "WorkflowTaskStarted")
        sched == NewPendingEvent(ExecutorEventID(i, n + Len(t.newEvents) + 2),
                                 "ActivityScheduled")
    IN CASE mode = "replay" -> t.newEvents
         [] mode = "task" -> <<started>> \o t.newEvents
         [] mode = "activity" -> <<started>> \o t.newEvents \o <<sched>>

ActivityEvents(executed) == SelectSeq(executed, LAMBDA e : e.type = "ActivityScheduled")

\* The one workflow event a checkpoint may carry to another instance: a
\* cancellation for an active instance, the start of one that does not exist.
WorkflowEvents(route) ==
    IF route = Nil THEN <<>>
    ELSE <<[target |-> route,
            event |-> NewPendingEvent(EventID(route, evCount[route] + 1),
                                      IF instance[route] = "None"
                                      THEN "ExecutionStarted" ELSE "ExecutionCanceled")]>>

\* The execution results a handler checkpoints: the final state, how the
\* executed events were made and whether a workflow event goes to another
\* instance.
ExecutionResults ==
    {[final |-> "Active", mode |-> "replay", routes |-> FALSE],
     [final |-> "Active", mode |-> "task", routes |-> FALSE],
     [final |-> "Active", mode |-> "task", routes |-> TRUE],
     [final |-> "Active", mode |-> "activity", routes |-> FALSE],
     [final |-> "Finished", mode |-> "task", routes |-> FALSE]}

\* CompleteWorkflowTask by the handler of worker w for the task it was handed,
\* in a run of at most maxEvents events.
CompleteWorkflowTaskWithin(w, res, route, maxEvents) ==
    /\ pc[w] = "idle"
    /\ task[w] # NoTask
    /\ res.routes <=> route # Nil
    /\ LET t == task[w]
           i == t.id
           final == res.final
           mode == res.mode
           executed == ExecutedEvents(t, i, mode)
           acts == ActivityEvents(executed)
           wfevs == WorkflowEvents(route)
           r == CompleteWorkflowTaskTx(Backend, t, i, final, executed, acts, wfevs)
       IN /\ route # i
          /\ route # Nil => instance[route] # "Finished"
          /\ ~r.err =>
                /\ Events + Len(wfevs) <= maxEvents
                /\ Len(history[i]) + Len(executed) <= MaxHist
                /\ acts # <<>> => actq.lastID < MaxTaskId
                /\ wfevs # <<>> => (route \in wfq.set \/ wfq.lastID < MaxTaskId)
          /\ wfq' = r.b.wfq
          /\ actq' = r.b.actq
          /\ instance' = r.b.instance
          /\ history' = r.b.history
          /\ pending' = r.b.pending
          /\ pendingLast' = r.b.pendingLast
          /\ evCount' = IF r.err THEN evCount
                        ELSE [j \in Instances |->
                                 evCount[j] + (IF j = route THEN 1 ELSE 0)]
          /\ appended' = IF r.err THEN appended
                         ELSE [appended EXCEPT ![i] = @ \o executed]
          /\ ret' = Ret("CompleteWorkflowTask", IF r.err THEN ErrCompleteTask ELSE NoError, t)
    /\ task' = [task EXCEPT ![w] = NoTask]
    /\ UNCHANGED pc
    /\ UNCHANGED otherVars

CompleteWorkflowTask(w, res, route) ==
    CompleteWorkflowTaskWithin(w, res, route, MaxEvents)

\* A checkpoint that sends a workflow event to another instance after the
\* clients have created all their events.
CompleteWorkflowTaskRouting(w, res, route) ==
    /\ res.routes
    /\ Events >= MaxEvents
    /\ CompleteWorkflowTaskWithin(w, res, route, MaxEvents + MaxRouted)

\* CompleteWorkflowTask with the zero task and nothing to record, as in
\* CompleteWorkflowTask_ReturnsErrorIfNotLocked.
CompleteWorkflowTaskNotLocked(w, i) ==
    /\ pc[w] = "idle"
    /\ task[w] = NoTask
    /\ LET r == CompleteWorkflowTaskTx(Backend, EmptyTask, i, "Active", <<>>, <<>>, <<>>) IN
       /\ wfq' = r.b.wfq
       /\ actq' = r.b.actq
       /\ instance' = r.b.instance
       /\ history' = r.b.history
       /\ pending' = r.b.pending
       /\ pendingLast' = r.b.pendingLast
       /\ ret' = Ret("CompleteWorkflowTask", IF r.err THEN ErrCompleteTask ELSE NoError,
                   EmptyTask)
    /\ UNCHANGED <<task, pc, evCount, appended>>
    /\ UNCHANGED otherVars

\* CompleteWorkflowTask by a caller that was never handed the task: the task
\* id is that of a queued entry no GetWorkflowTask has delivered yet.
CompleteWorkflowTaskNeverDelivered(w) ==
    /\ pc[w] = "idle"
    /\ task[w] = NoTask
    /\ \E m \in SeqToSet(wfq.stream) :
          /\ m.taskID > wfq.last
          /\ LET t == [WorkflowTask(m) EXCEPT !.newEvents = <<>>, !.lastPending = 0]
                 r == CompleteWorkflowTaskTx(Backend, t, m.id, "Active", <<>>, <<>>, <<>>)
             IN /\ wfq' = r.b.wfq
                /\ actq' = r.b.actq
                /\ instance' = r.b.instance
                /\ history' = r.b.history
                /\ pending' = r.b.pending
                /\ pendingLast' = r.b.pendingLast
                /\ ret' = Ret("CompleteWorkflowTask", IF r.err THEN ErrCompleteTask ELSE NoError, t)
    /\ UNCHANGED <<task, pc, evCount, appended>>
    /\ UNCHANGED otherVars

\* ----------------------------------------------------------- specification
Next ==
    \/ \E i \in Instances : CreateWorkflowInstance(i)
    \/ \E i \in Instances : SignalWorkflow(i)
    \/ \E w \in Workers : GetWorkflowTaskRecover(w)
    \/ \E w \in Workers : GetWorkflowTaskRead(w)
    \/ \E w \in Workers : ExtendWorkflowTask(w)
    \/ \E w \in Workers, res \in ExecutionResults, route \in Instances \cup {Nil} :
          CompleteWorkflowTask(w, res, route)
    \/ \E w \in Workers, i \in Instances : CompleteWorkflowTaskNotLocked(w, i)
    \/ Tick

Spec == Init /\ [][Next]_vars

\* ------------------------------------------------------- activity workers
\* The task.Activity built from a dequeued item of the activity queue.
ActivityTask(item) == msgToTaskItem(item, ZeroActivityData)

\* Dequeue on the activity queue: recover an abandoned activity task
\* (XAUTOCLAIM) or, when there is none, read one never delivered before
\* (XREADGROUP); nil and no error when there is neither. The worker polls
\* whether or not the handler of an earlier task is still running; the model
\* remembers the task handed out last.
GetActivityTask(a) ==
    /\ pc[a] = "idle"
    /\ LET rec == recover(actq, a, LockTimeout)
           r == IF rec.item # NoTask THEN rec ELSE XReadGroup(actq, a)
           t == IF r.item = NoTask THEN NoTask ELSE ActivityTask(r.item)
       IN /\ actq' = r.q
          /\ task' = [task EXCEPT ![a] = IF t = NoTask THEN @ ELSE t]
          /\ ret' = Ret("GetActivityTask", NoError, t)
    /\ UNCHANGED <<wfq, instance, history, pending, pendingLast, pc, evCount, appended>>
    /\ UNCHANGED otherVars

\* ExtendActivityTask: re-claims the activity task for the caller.
ExtendActivityTask(a) ==
    /\ pc[a] = "idle"
    /\ task[a] # NoTask
    /\ actq' = Extend(actq, a, task[a].taskID)
    /\ ret' = Ret("ExtendActivityTask", NoError, [taskID |-> task[a].taskID])
    /\ UNCHANGED <<wfq, instance, history, pending, pendingLast, task, pc, evCount,
                   appended>>
    /\ UNCHANGED otherVars

\* CompleteActivityTask by the worker that was handed the task: the result
\* event goes to the pending stream of the workflow instance, which is put
\* on the workflow queue, and the activity leaves the activity queue, all or
\* nothing. The workflow is still active: it waits for the result.
CompleteActivityTask(a) ==
    /\ pc[a] = "idle"
    /\ task[a] # NoTask
    /\ LET t == task[a]
           i == t.data.Instance
           c == Complete(actq, t.taskID)
           ev == NewPendingEvent(EventID(i, evCount[i] + 1), "ActivityCompleted")
       IN /\ instance[i] = "Active"
          /\ IF c.err
             THEN /\ ret' = Ret("CompleteActivityTask", ErrCompleteTask, t)
                  /\ UNCHANGED <<backendVars, evCount>>
             ELSE /\ Events < MaxEvents
                  /\ (i \in wfq.set \/ wfq.lastID < MaxTaskId)
                  /\ pending' = [pending EXCEPT ![i] = addEventToStreamP(@, pendingLast[i], ev)]
                  /\ pendingLast' = [pendingLast EXCEPT ![i] = @ + 1]
                  /\ wfq' = Enqueue(wfq, i, workflowTaskData(pendingLast[i] + 1))
                  /\ actq' = c.q
                  /\ evCount' = [evCount EXCEPT ![i] = @ + 1]
                  /\ ret' = Ret("CompleteActivityTask", NoError, t)
                  /\ UNCHANGED <<instance, history>>
    /\ task' = [task EXCEPT ![a] = NoTask]
    /\ UNCHANGED <<pc, appended>>
    /\ UNCHANGED otherVars

\* The backend with activity workers.
NextActivities ==
    \/ Next
    \/ \E a \in ActivityWorkers : GetActivityTask(a)
    \/ \E a \in ActivityWorkers : ExtendActivityTask(a)
    \/ \E a \in ActivityWorkers : CompleteActivityTask(a)

SpecActivities == Init /\ [][NextActivities]_vars

\* GetActivityTask by worker a hands out a task never delivered before.
ReadNewActivityTask(a) ==
    /\ GetActivityTask(a)
    /\ ret'.task # NoTask
    /\ ret'.task.taskID > actq.last

\* Every activity worker keeps polling: its loop calls GetActivityTask again
\* after every call that returns, and a call that finds nothing to recover
\* blocks in XREADGROUP, where it is handed a new entry as soon as there is
\* one. Polls are far more frequent than lock timeouts, so a worker is not
\* kept from reading new entries by recoveries for ever.
FairSpecActivities ==
    /\ SpecActivities
    /\ \A a \in ActivityWorkers :
          WF_vars(GetActivityTask(a)) /\ SF_vars(ReadNewActivityTask(a))

\* ------------------------------------------------------- contexts that end
\* GetWorkflowTask whose context times out or is cancelled while XREADGROUP
\* blocks with no new task: the command ends with the context's error.
GetWorkflowTaskContextDone(w) ==
    /\ pc[w] = "read"
    /\ XReadGroup(wfq, w).item = NoTask
    /\ ret' = Ret("GetWorkflowTask", dequeueError(ErrContextDone), NoTask)
    /\ pc' = [pc EXCEPT ![w] = "idle"]
    /\ UNCHANGED <<backendVars, task, evCount, appended>>
    /\ UNCHANGED otherVars

\* GetActivityTask whose context ends while there is no task to recover or
\* read.
GetActivityTaskContextDone(a) ==
    /\ pc[a] = "idle"
    /\ recover(actq, a, LockTimeout).item = NoTask
    /\ XReadGroup(actq, a).item = NoTask
    /\ ret' = Ret("GetActivityTask", dequeueError(ErrContextDone), NoTask)
    /\ UNCHANGED <<backendVars, task, pc, evCount, appended>>
    /\ UNCHANGED otherVars

\* workflowWorker.poll whose timeout fires before GetWorkflowTask returns: the
\* wrapper returns (nil, nil) and the result of the call is dropped.
pollTimeout(w) ==
    /\ pc[w] = "read"
    /\ XReadGroup(wfq, w).item = NoTask
    /\ ret' = Ret("poll", NoError, NoTask)
    /\ pc' = [pc EXCEPT ![w] = "idle"]
    /\ UNCHANGED <<backendVars, task, evCount, appended>>
    /\ UNCHANGED otherVars

\* The backend with callers whose contexts end while they wait for a task.
NextContext ==
    \/ NextActivities
    \/ \E w \in Workers : GetWorkflowTaskContextDone(w)
    \/ \E a \in ActivityWorkers : GetActivityTaskContextDone(a)
    \/ \E w \in Workers : pollTimeout(w)

SpecContext == Init /\ [][NextContext]_vars

\* The backend with clients that also cancel instances.
NextCancel ==
    \/ Next
    \/ \E i \in Instances : CancelWorkflowInstance(i)

SpecCancel == Init /\ [][NextCancel]_vars

\* The backend with handlers that route an event after the clients' last one.
NextRouting ==
    \/ Next
    \/ \E w \in Workers, res \in ExecutionResults, route \in Instances :
          CompleteWorkflowTaskRouting(w, res, route)

SpecRouting == Init /\ [][NextRouting]_vars

\* The backend with callers that also complete tasks they were never handed.
NextAnyCaller ==
    \/ Next
    \/ \E w \in Workers : CompleteWorkflowTaskNeverDelivered(w)

SpecAnyCaller == Init /\ [][NextAnyCaller]_vars

\* ------------------------------------------------------------------ leases
\* Worker w holds a delivered task that has not been completed.
Active(w) == task[w] # NoTask /\ InStream(wfq, task[w].taskID)

\* Worker w holds a task whose lease is its own and has not expired.
Leased(w) ==
    /\ task[w] # NoTask
    /\ \E e \in wfq.pel :
          e.taskID = task[w].taskID /\ e.consumer = w /\ e.idle < LockTimeout

\* This step hands a task to worker w.
Delivered(w) == task[w] = NoTask /\ task'[w] # NoTask

\* This step is part of a GetWorkflowTask call of worker w.
GetStep(w) == pc'[w] # pc[w] \/ Delivered(w)

\* ------------------------------------------------------------------ claims
\* C1 as stated: no two consumers hold an active task for the same instance at
\* once, recovery and re-enqueue included.
C1_OneActiveTaskAsStated ==
    \A v \in Workers, w \in Workers :
        v # w /\ Active(v) /\ Active(w) => task[v].id # task[w].id

C1_OneLeasePerInstance ==
    \A v \in Workers, w \in Workers :
        v # w /\ Leased(v) /\ Leased(w) => task[v].id # task[w].id

C1_SecondDeliveryIsRecovery ==
    \A v \in Workers, w \in Workers :
        (v # w /\ Active(v) /\ Delivered(w) /\ task'[w].id = task[v].id) =>
            /\ task'[w].taskID = task[v].taskID
            /\ \E e \in wfq.pel : e.taskID = task[v].taskID /\ e.idle >= LockTimeout

\* C1 amended: no two consumers hold an unexpired lease for the same instance
\* at once, and while one consumer holds an uncompleted task of an instance a
\* second delivery for that instance is only the recovery of that very task
\* after its lease has been idle for the lock timeout.
C1_OneActiveTask ==
    /\ []C1_OneLeasePerInstance
    /\ [][C1_SecondDeliveryIsRecovery]_vars

\* A task was recovered: its first holder still has it, the second holds the lease.
C1_Witness ==
    \E v \in Workers, w \in Workers :
        /\ v # w /\ Active(v) /\ Leased(w)
        /\ task[v].taskID = task[w].taskID

C4_RecoveryAfterTimeout ==
    \A w \in Workers :
        /\ (Delivered(w) /\ InPel(wfq, task'[w].taskID)) =>
              /\ PelEntry(wfq, task'[w].taskID).idle >= LockTimeout
              /\ LET m == StreamEntry(wfq, task'[w].taskID) IN
                    /\ task'[w].id = m.id
                    /\ task'[w].data = jsonUnmarshal(m.data, ZeroWorkflowTaskData)
              /\ \A v \in Workers :
                    task[v].taskID = task'[w].taskID =>
                        task'[w].id = task[v].id /\ task'[w].data = task[v].data
        /\ (pc[w] = "idle" /\ GetStep(w) /\ \E e \in wfq.pel : e.idle >= LockTimeout) =>
              Delivered(w) /\ InPel(wfq, task'[w].taskID)

\* C4: a leased task that has been idle for the lock timeout is handed to the
\* next consumer that dequeues, with the same task id, instance id and data
\* as before; a task whose lease has not been idle that long is not recovered.
C4_LeaseRecovery == [][C4_RecoveryAfterTimeout]_vars

\* The last call recovered a task that its first consumer still holds.
C4_Witness ==
    /\ ret.op = "GetWorkflowTask"
    /\ ret.task # NoTask
    /\ \E v \in Workers :
          /\ task[v] = ret.task
          /\ PelEntry(wfq, ret.task.taskID).consumer # v
          /\ PelEntry(wfq, ret.task.taskID).idle = 0

\* Worker w holds a task whose lease is its own but has been idle for the
\* lock timeout.
LeaseExpired(w) ==
    /\ task[w] # NoTask
    /\ \E e \in wfq.pel :
          e.taskID = task[w].taskID /\ e.consumer = w /\ e.idle >= LockTimeout

\* This step is the CompleteWorkflowTask call of worker w for the task it holds.
CompleteStep(w) ==
    /\ task[w] # NoTask
    /\ task'[w] = NoTask
    /\ ret'.op = "CompleteWorkflowTask"
    /\ ret'.task = task[w]

C5_CompleteAfterTimeoutFails ==
    \A w \in Workers :
        (LeaseExpired(w) /\ CompleteStep(w)) =>
            ret'.err /\ InStream(wfq', task[w].taskID)

\* C5: CompleteWorkflowTask for a task whose lease has timed out fails (lease
\* lost) and leaves the task on the queue.
C5_LeaseLostAtCompletion == [][C5_CompleteAfterTimeoutFails]_vars

\* C6: CompleteWorkflowTask for a task that is not currently leased -- its
\* task id was never delivered or is no longer in the task stream -- returns
\* an error.
C6_CompleteNotLeased ==
    [][(ret'.op = "CompleteWorkflowTask" /\ ~InPel(wfq, ret'.task.taskID)) => ret'.err]_vars

\* The queue holds one task and it is leased: delivered, lease not expired.
OnlyTaskLocked ==
    /\ Len(wfq.stream) = 1
    /\ \E e \in wfq.pel : e.taskID = wfq.stream[1].taskID /\ e.idle < LockTimeout

C7_NoTaskWhileLocked ==
    \A w \in Workers :
        (GetStep(w) /\ OnlyTaskLocked) =>
            /\ task'[w] = NoTask
            /\ pc[w] = "read" =>
                  ret' = Ret("GetWorkflowTask", NoError, NoTask)

Dense(h) ==
    /\ h # <<>> => h[1].seq = 1
    /\ \A k \in 1..(Len(h) - 1) : h[k + 1].seq = h[k].seq + 1

C9_HistoryAppendOnly ==
    \A i \in Instances :
        /\ Len(history'[i]) >= Len(history[i])
        /\ SubSeq(history'[i], 1, Len(history[i])) = history[i]

C10_HistoryIsAppendedEvents ==
    \A i \in Instances :
        LET h == GetWorkflowInstanceHistory(i) IN
        /\ Len(h) = Len(appended[i])
        /\ \A k \in 1..Len(h) :
              h[k].id = appended[i][k].id /\ h[k].type = appended[i][k].type

\* A successful checkpoint has just added several events to a history.
C10_Witness ==
    /\ ret.op = "CompleteWorkflowTask"
    /\ ~ret.err
    /\ Len(history[ret.task.id]) >= 2
    /\ Len(ret.task.newEvents) >= 2

\* ------------------------------------------------------------------ C12
\* C12: CreateWorkflowInstance for an instance that already exists (active
\* or finished) returns an error and leaves the instance state, the
\* histories, the pending events and the queues as they were.
C12_CreateExistingFails ==
    [][\A i \in Instances :
          (instance[i] # "None" /\ CreateWorkflowInstance(i)) =>
              /\ ret'.op = "CreateWorkflowInstance"
              /\ ret'.error # NoError
              /\ UNCHANGED backendVars]_vars

\* A second CreateWorkflowInstance has just failed for a queued active
\* instance whose start event is still pending.
C12_Witness ==
    /\ ret = Ret("CreateWorkflowInstance", ErrInstanceAlreadyExists, NoTask)
    /\ \E i \in Instances :
          /\ instance[i] = "Active"
          /\ i \in wfq.set
          /\ Len(pending[i]) = 1

\* ------------------------------------------------------------------ C13
\* Tasks of the workflow queue that no GetWorkflowTask has delivered yet.
Undelivered(q) == {m \in SeqToSet(q.stream) : m.taskID > q.last}

\* The workflow queue holds one task, for instance i, not delivered yet.
OnlyQueued(i) ==
    /\ wfq.set = {i}
    /\ Len(wfq.stream) = 1
    /\ wfq.stream[1].id = i
    /\ Undelivered(wfq) = {wfq.stream[1]}

\* A successful CreateWorkflowInstance makes one instance Active with its
\* start event pending and an undelivered task for it on the workflow queue.
C13_CreateEnqueues ==
    [][(ret'.op = "CreateWorkflowInstance" /\ ret'.error = NoError) =>
          \E i \in Instances :
             /\ instance[i] = "None"
             /\ instance'[i] = "Active"
             /\ i \in wfq'.set
             /\ \E m \in Undelivered(wfq') : m.id = i
             /\ Len(pending'[i]) = 1
             /\ unmarshalEvent(pending'[i][1].event).type = "ExecutionStarted"]_vars

\* The start event and the queue entry are created together or not at all:
\* an instance that does not exist has neither, and no step gives an
\* instance its first pending event without a queue entry or the reverse.
C13_StartAndEntryTogether ==
    [][\A i \in Instances :
          /\ instance[i] = "None" =>
                (pending[i] = <<>> /\ i \notin wfq.set
                   /\ \A m \in SeqToSet(wfq.stream) : m.id # i)
          /\ instance[i] = "None" =>
                ((pending'[i] # <<>>) <=> (\E m \in SeqToSet(wfq'.stream) : m.id = i))
          /\ instance[i] = "None" =>
                ((pending'[i] # <<>>) <=> (instance'[i] = "Active"))]_vars

\* A GetWorkflowTask that returns while the only queued task is the
\* undelivered one of instance i returns that task.
C13_NextTaskIsTheInstance ==
    [][\A i \in Instances :
          (OnlyQueued(i) /\ ret'.op = "GetWorkflowTask") =>
              /\ ret'.error = NoError
              /\ ret'.task # NoTask
              /\ ret'.task.id = i]_vars

\* C13: after CreateWorkflowInstance succeeds for I, I is Active and on the
\* workflow queue with its start event, both created in the same step, and
\* the next GetWorkflowTask, with nothing else queued, returns a task for I.
C13_CreateThenGet ==
    /\ C13_CreateEnqueues
    /\ C13_StartAndEntryTogether
    /\ C13_NextTaskIsTheInstance

\* GetWorkflowTask has just returned the task of an instance that was created
\* by the only CreateWorkflowInstance so far.
C13_Witness ==
    /\ ret.op = "GetWorkflowTask"
    /\ ret.task # NoTask
    /\ instance[ret.task.id] = "Active"
    /\ Events = 1
    /\ Len(ret.task.newEvents) = 1
    /\ ret.task.newEvents[1].type = "ExecutionStarted"
    /\ wfq.set = {ret.task.id}

\* ------------------------------------------------------------------ C14
\* C14: SignalWorkflow and CancelWorkflowInstance for an instance that does
\* not exist return exactly ErrInstanceNotFound, from the backend and from the
\* client, and add no pending event and no queue entry.
C14_NotFound ==
    [][\A i \in Instances :
          (instance[i] = "None" /\ (SignalWorkflow(i) \/ CancelWorkflowInstance(i))) =>
              /\ ret'.op \in {"SignalWorkflow", "CancelWorkflowInstance"}
              /\ ret'.error = ErrInstanceNotFound
              /\ ClientError(ret') = ErrInstanceNotFound
              /\ UNCHANGED backendVars]_vars

\* SignalWorkflow has just failed with ErrInstanceNotFound while one instance
\* does not exist and another one is active.
C14_Witness ==
    /\ ret = Ret("SignalWorkflow", ErrInstanceNotFound, NoTask)
    /\ ClientError(ret) = ErrInstanceNotFound
    /\ \E i, j \in Instances : instance[i] = "None" /\ instance[j] = "Active"
    /\ \A i \in Instances : instance[i] = "None" => pending[i] = <<>> /\ i \notin wfq.set

\* ------------------------------------------------------------------ C15
\* The step is a successful CompleteWorkflowTask of a task of instance i with
\* final state Finished.
FinishStep(i) ==
    \E w \in Workers, res \in ExecutionResults, route \in Instances \cup {Nil} :
       /\ res.final = "Finished"
       /\ task[w] # NoTask
       /\ task[w].id = i
       /\ CompleteWorkflowTask(w, res, route)
       /\ ret'.error = NoError

LastEvent(events) == events[Len(events)]

\* A consumer holds a task of instance i: delivered and not completed.
Held(i) == \E e \in wfq.pel : StreamEntry(wfq, e.taskID).id = i

\* Instance i is active, its initial task was completed and no consumer holds
\* a task for it.
Drained(i) ==
    /\ instance[i] = "Active"
    /\ history[i] # <<>>
    /\ ~Held(i)

\* Cancelling a drained instance puts it on the workflow queue again, with
\* the cancellation as the last pending event.
C16_CancelEnqueues ==
    [][\A i \in Instances :
          (Drained(i) /\ CancelWorkflowInstance(i)) =>
              /\ ret'.error = NoError
              /\ i \in wfq'.set
              /\ \E m \in Undelivered(wfq') : m.id = i
              /\ unmarshalEvent(pending'[i][Len(pending'[i])].event).type =
                    "ExecutionCanceled"]_vars

\* A task handed out carries the pending events of its instance as its new
\* events; with the cancelled instance the only one queued, the next
\* GetWorkflowTask returns its task, whose last new event is the cancellation.
C16_NextTaskEndsWithCancel ==
    [][/\ (ret'.op = "GetWorkflowTask" /\ ret'.task # NoTask) =>
              ret'.task.newEvents = PendingEvents(ret'.task.id)
       /\ \A i \in Instances :
             (/\ OnlyQueued(i)
              /\ pending[i] # <<>>
              /\ LastEvent(PendingEvents(i)).type = "ExecutionCanceled"
              /\ ret'.op = "GetWorkflowTask") =>
                 /\ ret'.error = NoError
                 /\ ret'.task # NoTask
                 /\ ret'.task.id = i
                 /\ LastEvent(ret'.task.newEvents).type = "ExecutionCanceled"]_vars

RouteStep(p, s) ==
    \E w \in Workers, res \in ExecutionResults :
       /\ res.routes
       /\ task[w] # NoTask
       /\ task[w].id = p
       /\ (CompleteWorkflowTask(w, res, s) \/ CompleteWorkflowTaskRouting(w, res, s))
       /\ ret'.error = NoError

\* The routed event becomes the last pending event of s, after those that
\* were pending, and s has an undelivered task on the workflow queue.
C17_RouteAppendsAndEnqueues ==
    [][\A p, s \in Instances :
          (p # s /\ instance[s] = "Active" /\ ~Held(s) /\ RouteStep(p, s)) =>
              /\ Len(pending'[s]) = Len(pending[s]) + 1
              /\ SubSeq(pending'[s], 1, Len(pending[s])) = pending[s]
              /\ unmarshalEvent(pending'[s][Len(pending'[s])].event) =
                    WorkflowEvents(s)[1].event
              /\ s \in wfq'.set
              /\ \E m \in Undelivered(wfq') : m.id = s]_vars

\* With s the only instance queued, the next GetWorkflowTask returns its task
\* and the last new event is the last pending one.
C17_NextTaskIsRouted ==
    [][\A s \in Instances :
          (OnlyQueued(s) /\ pending[s] # <<>> /\ ret'.op = "GetWorkflowTask") =>
              /\ ret'.error = NoError
              /\ ret'.task # NoTask
              /\ ret'.task.id = s
              /\ LastEvent(ret'.task.newEvents) = LastEvent(PendingEvents(s))]_vars

HolderExtendStep(w) ==
    /\ task[w] # NoTask
    /\ InPel(wfq, task[w].taskID)
    /\ PelEntry(wfq, task[w].taskID).consumer = w
    /\ ExtendWorkflowTask(w)

\* The workflow queue with the idle time of task taskID reset and nothing
\* else changed.
TimerReset(q, taskID) ==
    [q EXCEPT !.pel = (@ \ {PelEntry(q, taskID)}) \cup
                      {[PelEntry(q, taskID) EXCEPT !.idle = 0]}]

\* C18 as stated: an ExtendWorkflowTask by the holder of the lease has no
\* effect other than resetting the idle timer of the task.
C18_ExtendOnlyResetsTimer ==
    [][\A w \in Workers :
          HolderExtendStep(w) =>
              /\ wfq' = TimerReset(wfq, task[w].taskID)
              /\ UNCHANGED <<actq, instance, history, pending, pendingLast>>]_vars

\* An ExtendWorkflowTask by the holder resets the idle timer of the task and
\* raises its delivery counter; the holder, the other tasks and the rest of
\* the backend stay as they were, and the call returns no error.
C18_ExtendResetsTimer ==
    [][\A w \in Workers :
          HolderExtendStep(w) =>
              LET t == task[w].taskID
                  e == PelEntry(wfq, t)
              IN /\ ret'.error = NoError
                 /\ PelEntry(wfq', t) = [taskID |-> t, consumer |-> w, idle |-> 0,
                                         count |-> Redelivered(e)]
                 /\ wfq'.pel \ {PelEntry(wfq', t)} = wfq.pel \ {e}
                 /\ wfq'.stream = wfq.stream
                 /\ wfq'.set = wfq.set
                 /\ wfq'.last = wfq.last
                 /\ wfq'.lastID = wfq.lastID
                 /\ UNCHANGED <<actq, instance, history, pending, pendingLast>>]_vars

\* Recovery hands a held task to a consumer only when its idle time has
\* reached the lock timeout.
C18_NoRecoveryBeforeTimeout ==
    [][\A t \in 1..wfq.lastID :
          (/\ InPel(wfq, t)
           /\ ret'.op = "GetWorkflowTask"
           /\ ret'.task # NoTask
           /\ ret'.task.taskID = t) =>
              PelEntry(wfq, t).idle >= LockTimeout]_vars

\* C18, with the effect on the delivery counter: extending a lease resets the
\* task's idle timer and raises its delivery counter, and changes nothing
\* else; a task is recovered by another consumer only once it has been idle
\* for the lock timeout, so a holder that extends at shorter intervals keeps
\* it however long it holds it.
C18_ExtendKeepsLease ==
    /\ C18_ExtendResetsTimer
    /\ C18_NoRecoveryBeforeTimeout

\* The holder of a task has just extended its lease: the task is still held
\* by that consumer alone, with its idle time reset and its delivery counter
\* raised.
C18_Witness ==
    /\ ret.op = "ExtendWorkflowTask"
    /\ InPel(wfq, ret.task.taskID)
    /\ \E w \in Workers :
          /\ task[w] # NoTask
          /\ task[w].taskID = ret.task.taskID
          /\ PelEntry(wfq, ret.task.taskID) =
                [taskID |-> ret.task.taskID, consumer |-> w, idle |-> 0,
                 count |-> MaxDeliveries]
          /\ \A v \in Workers \ {w} : task[v] = NoTask \/ task[v].taskID # task[w].taskID

\* ------------------------------------------------------------------ C19
\* C19: an ExtendWorkflowTask by a worker whose lease expired and whose task
\* was claimed by another consumer returns an error and leaves the task with
\* its new holder.
C19_ExtendAfterLossFails ==
    [][\A w \in Workers :
          (/\ task[w] # NoTask
           /\ InPel(wfq, task[w].taskID)
           /\ PelEntry(wfq, task[w].taskID).consumer # w
           /\ ExtendWorkflowTask(w)) =>
              /\ ret'.error # NoError
              /\ PelEntry(wfq', task[w].taskID).consumer =
                    PelEntry(wfq, task[w].taskID).consumer]_vars

\* ------------------------------------------------------------------ C20
\* The executed events the step's successful checkpoint added for instance i.
NewlyAppended(i) == SubSeq(appended'[i], Len(appended[i]) + 1, Len(appended'[i]))

\* Every activity scheduling event of a successful CompleteWorkflowTask has
\* an undelivered task on the activity queue, carrying the event.
C20_ActivitiesEnqueued ==
    [][(ret'.op = "CompleteWorkflowTask" /\ ret'.error = NoError) =>
          \A i \in Instances :
             \A ev \in SeqToSet(ActivityEvents(NewlyAppended(i))) :
                \E m \in Undelivered(actq') :
                   /\ m.id = ev.id
                   /\ ActivityTask(m).data = activityData(i, ev.id, ev)]_vars

\* An activity task leaves the activity queue only by a successful
\* CompleteActivityTask for it, after it was delivered; until then it keeps
\* its place, and once delivered it is in the pending entries list, from
\* where recovery hands it out again when the lock timeout has passed.
C20_KeptUntilCompleted ==
    [][/\ \A m \in SeqToSet(actq.stream) :
             m \notin SeqToSet(actq'.stream) =>
                /\ ret'.op = "CompleteActivityTask"
                /\ ret'.error = NoError
                /\ ret'.task.taskID = m.taskID
                /\ m.taskID <= actq.last
       /\ \A m \in SeqToSet(actq'.stream) :
             m.taskID <= actq'.last => InPel(actq', m.taskID)
       /\ \A a \in ActivityWorkers :
             ((\E e \in actq.pel : e.idle >= LockTimeout) /\ GetActivityTask(a)) =>
                /\ ret'.task # NoTask
                /\ InPel(actq, ret'.task.taskID)
                /\ PelEntry(actq, ret'.task.taskID).idle >= LockTimeout
                /\ PelEntry(actq', ret'.task.taskID).consumer = a]_vars

\* Every activity task on the queue is eventually delivered to a worker.
C20_EventuallyDelivered ==
    \A t \in 1..(MaxTaskId + 1) :
       (InStream(actq, t) /\ t > actq.last) ~> (t <= actq.last)

\* C20: every activity scheduling event of a successful CompleteWorkflowTask
\* is enqueued and eventually delivered as an activity task; the task stays
\* on the activity queue, to be delivered again after the lock timeout, until
\* a CompleteActivityTask for it succeeds, and is never removed before it was
\* delivered.
C20_AtLeastOnce ==
    /\ C20_ActivitiesEnqueued
    /\ C20_KeptUntilCompleted
    /\ C20_EventuallyDelivered

\* An activity task scheduled by a checkpoint was delivered, left alone past
\* the lock timeout, and has just been delivered again by recovery.
C20_Witness ==
    /\ ret.op = "GetActivityTask"
    /\ ret.task # NoTask
    /\ InPel(actq, ret.task.taskID)
    /\ PelEntry(actq, ret.task.taskID).count >= 2
    /\ PelEntry(actq, ret.task.taskID).idle = 0
    /\ \E a \in ActivityWorkers :
          /\ task[a] = ret.task
          /\ PelEntry(actq, ret.task.taskID).consumer = a
    /\ \E i \in Instances :
          \E ev \in SeqToSet(ActivityEvents(appended[i])) : ret.task.id = ev.id

\* ------------------------------------------------------------------ C11
\* C11: a GetWorkflowTask or GetActivityTask that returns without a task,
\* because no task became available before its context timed out or was
\* cancelled, returns no error, and so does the worker's poll wrapper when
\* its timeout fires.
C11_NilWithoutError ==
    [][(/\ ret'.op \in {"GetWorkflowTask", "GetActivityTask", "poll"}
        /\ ret'.task = NoTask) => ret'.error = NoError]_vars

\* ================================================================= worker
\* One worker process (internal/worker/workflow.go): pollers, the dispatcher,
\* the handlers it spawns, their heartbeats and the executor cache. The
\* backend is seen through its calls only: GetWorkflowTask hands out tasks
\* 1..MaxWorkerTasks, each for some instance, and every backend call and
\* every executor call either succeeds or returns an error.

\* The option sets the worker is started with.
WorkerOptions ==
    [WorkflowPollers : {WorkflowPollers},
     MaxParallelWorkflowTasks : {0, MaxParallelWorkflowTasks},
     HeartbeatWorkflowTasks : BOOLEAN]

InitWorkerSpec ==
    /\ InitBackend
    /\ \E o \in WorkerOptions : InitWorker(o)
    /\ call = NoCall

\* The pollers Start launches: for i := 0; i <= WorkflowPollers; i++.
startedPollers(n) == 0..n

\* Start: the eviction goroutine, the pollers and the dispatcher.
Start ==
    /\ ~panicked
    /\ runDispatcher.pc = "none"
    /\ eviction' = "running"
    /\ runPoll' = [p \in startedPollers(options.WorkflowPollers) |->
                      [pc |-> "select", task |-> NoTask]]
    /\ runDispatcher' = [pc |-> "select", t |-> NoTask]
    /\ UNCHANGED outsideWorker
    /\ UNCHANGED <<options, ctx, sem, wg, handler, heartbeatTask, cache, panicked,
                   polled, executors>>

\* The caller cancels the root context.
cancel ==
    /\ ~panicked
    /\ ctx = "live"
    /\ ctx' = "done"
    /\ UNCHANGED outsideWorker
    /\ UNCHANGED <<options, eviction, runPoll, runDispatcher, sem, wg, handler,
                   heartbeatTask, cache, panicked, polled, executors>>

\* runPoll, top of the loop: select { case <-ctx.Done(): return; default: }.
runPollSelect(p) ==
    /\ ~panicked
    /\ runPoll[p].pc = "select"
    /\ runPoll' = [runPoll EXCEPT ![p].pc = IF ctx = "done" THEN "done" ELSE "poll"]
    /\ UNCHANGED outsideWorker
    /\ UNCHANGED <<options, ctx, eviction, runDispatcher, sem, wg, handler,
                   heartbeatTask, cache, panicked, polled, executors>>

\* What ww.poll returns to runPoll: a task, (nil, nil), or an error.
pollOutcomes == {"task", "nil", "error"}

\* runPoll after poll returned: a task goes to the internal channel, an error
\* is logged, and the loop starts over.
runPollPoll(p, out, i) ==
    /\ ~panicked
    /\ runPoll[p].pc = "poll"
    /\ IF out = "task"
       THEN /\ polled < MaxWorkerTasks
            /\ polled' = polled + 1
            /\ runPoll' = [runPoll EXCEPT
                             ![p] = [pc |-> "push",
                                     task |-> [ID |-> polled + 1, WorkflowInstance |-> i]]]
       ELSE /\ runPoll' = [runPoll EXCEPT ![p].pc = "select"]
            /\ UNCHANGED polled
    /\ UNCHANGED outsideWorker
    /\ UNCHANGED <<options, ctx, eviction, runDispatcher, sem, wg, handler,
                   heartbeatTask, cache, panicked, executors>>

\* runDispatcher's select, case t := <-ww.workflowTaskQueue, together with
\* the poller's send on the unbuffered channel.
runDispatcherReceive(p) ==
    /\ ~panicked
    /\ runDispatcher.pc = "select"
    /\ runPoll[p].pc = "push"
    /\ runDispatcher' = [pc |-> "sem", t |-> runPoll[p].task]
    /\ runPoll' = [runPoll EXCEPT ![p] = [pc |-> "select", task |-> NoTask]]
    /\ UNCHANGED outsideWorker
    /\ UNCHANGED <<options, ctx, eviction, sem, wg, handler, heartbeatTask, cache,
                   panicked, polled, executors>>

\* runDispatcher's select, case <-ctx.Done().
runDispatcherDone ==
    /\ ~panicked
    /\ runDispatcher.pc = "select"
    /\ ctx = "done"
    /\ runDispatcher' = [pc |-> "done", t |-> NoTask]
    /\ UNCHANGED outsideWorker
    /\ UNCHANGED <<options, ctx, eviction, runPoll, sem, wg, handler, heartbeatTask,
                   cache, panicked, polled, executors>>

\* A dispatcher that never waits for a slot.
semFullNever(occupied, max) == FALSE

\* sem <- struct{}{} blocks while the semaphore, made with capacity
\* MaxParallelWorkflowTasks when that is positive, is full; a nil semaphore is
\* not used.
semFull(occupied, max) == max > 0 /\ occupied >= max

\* runDispatcher with a task: takes a slot, adds to the WaitGroup and spawns
\* the handler.
runDispatcherSpawn ==
    /\ ~panicked
    /\ runDispatcher.pc = "sem"
    /\ ~semFull(sem, options.MaxParallelWorkflowTasks)
    /\ sem' = IF options.MaxParallelWorkflowTasks > 0 THEN sem + 1 ELSE sem
    /\ wg' = wg + 1
    /\ handler' = [handler EXCEPT ![runDispatcher.t.ID] =
                     [pc |-> "getExecutor", t |-> runDispatcher.t, executor |-> 0]]
    /\ runDispatcher' = [pc |-> "select", t |-> NoTask]
    /\ UNCHANGED outsideWorker
    /\ UNCHANGED <<options, ctx, eviction, runPoll, heartbeatTask, cache, panicked,
                   polled, executors>>

\* What cache.Get may return for instance i: the executor it holds, a miss,
\* or a miss with an error.
cacheGet(c, i) ==
    IF c[i] # 0
    THEN {[executor |-> c[i], ok |-> TRUE, err |-> FALSE],
          [executor |-> 0, ok |-> FALSE, err |-> TRUE]}
    ELSE {[executor |-> 0, ok |-> FALSE, err |-> FALSE],
          [executor |-> 0, ok |-> FALSE, err |-> TRUE]}

\* getExecutor that builds a new executor on every call.
getExecutorAlwaysNew(got, built) == built

\* The executor getExecutor returns: the cached one on a hit, a new one on a
\* miss.
getExecutorResult(got, built) == IF got.ok THEN got.executor ELSE built

\* A goroutine panics (logger.Panic, or a nil dereference): its deferred calls
\* run and the process ends.
Panic(k) ==
    /\ panicked' = TRUE
    /\ wg' = wg - 1
    /\ handler' = [handler EXCEPT ![k].pc = "panic"]

\* handleTask up to the start of the executor: getExecutor, then the
\* heartbeat goroutine when HeartbeatWorkflowTasks is set. An error of
\* workflow.NewExecutor is returned to handler.
getExecutor(k, got, newErr, storeErr) ==
    /\ ~panicked
    /\ handler[k].pc = "getExecutor"
    /\ got \in cacheGet(cache, handler[k].t.WorkflowInstance)
    /\ got.ok => ~newErr
    /\ IF newErr
       THEN /\ Panic(k)
            /\ UNCHANGED <<cache, executors, heartbeatTask>>
       ELSE LET executor == getExecutorResult(got, executors + 1) IN
            /\ executors' = IF got.ok THEN executors ELSE executors + 1
            /\ cache' = IF storeErr THEN cache
                        ELSE [cache EXCEPT ![handler[k].t.WorkflowInstance] = executor]
            /\ handler' = [handler EXCEPT ![k].pc = "ExecuteTask", ![k].executor = executor]
            /\ heartbeatTask' = [heartbeatTask EXCEPT
                                   ![k] = IF options.HeartbeatWorkflowTasks
                                          THEN "running" ELSE @]
            /\ UNCHANGED <<wg, panicked>>
    /\ UNCHANGED outsideWorker
    /\ UNCHANGED <<options, ctx, eviction, runPoll, runDispatcher, sem, polled>>

\* handleTask cancelling the heartbeat only when handler returns.
cancelHeartbeatLater(hb) == hb

\* The deferred cancelHeartbeat of handleTask.
cancelHeartbeat(hb) == IF hb = "running" THEN "cancelled" ELSE hb

\* handleTask from executor.ExecuteTask to its return, which cancels the
\* heartbeat's context; handler panics on an error.
handleTask(k, err) ==
    /\ ~panicked
    /\ handler[k].pc = "ExecuteTask"
    /\ heartbeatTask' = [heartbeatTask EXCEPT ![k] = cancelHeartbeat(@)]
    /\ IF err
       THEN Panic(k)
       ELSE /\ handler' = [handler EXCEPT ![k].pc = "CompleteWorkflowTask"]
            /\ UNCHANGED <<wg, panicked>>
    /\ UNCHANGED outsideWorker
    /\ UNCHANGED <<options, ctx, eviction, runPoll, runDispatcher, sem, cache, polled,
                   executors>>

\* handler after handleTask: CompleteWorkflowTask, then the slot is released
\* and the WaitGroup is signalled; handler panics on an error.
handle(k, err) ==
    /\ ~panicked
    /\ handler[k].pc = "CompleteWorkflowTask"
    /\ IF err
       THEN /\ Panic(k)
            /\ UNCHANGED sem
       ELSE /\ handler' = [handler EXCEPT ![k].pc = "done"]
            /\ sem' = IF options.MaxParallelWorkflowTasks > 0 THEN sem - 1 ELSE sem
            /\ wg' = wg - 1
            /\ UNCHANGED panicked
    /\ UNCHANGED outsideWorker
    /\ UNCHANGED <<options, ctx, eviction, runPoll, runDispatcher, heartbeatTask, cache,
                   polled, executors>>

\* The heartbeat's context is done: cancelHeartbeat was called or the root
\* context was cancelled.
heartbeatCtxDone(k) == heartbeatTask[k] = "cancelled" \/ ctx = "done"

\* heartbeatTask's select, case <-t.C: ExtendWorkflowTask; a panic on an
\* error. The case can be taken whenever the ticker has fired, also when the
\* context is done as well.
heartbeatTaskTick(k, err) ==
    /\ ~panicked
    /\ heartbeatTask[k] \in {"running", "cancelled"}
    /\ panicked' = err
    /\ UNCHANGED outsideWorker
    /\ UNCHANGED <<options, ctx, eviction, runPoll, runDispatcher, sem, wg, handler,
                   heartbeatTask, cache, polled, executors>>

\* heartbeatTask's select, case <-ctx.Done().
heartbeatTaskDone(k) ==
    /\ ~panicked
    /\ heartbeatTask[k] \in {"running", "cancelled"}
    /\ heartbeatCtxDone(k)
    /\ heartbeatTask' = [heartbeatTask EXCEPT ![k] = "done"]
    /\ UNCHANGED outsideWorker
    /\ UNCHANGED <<options, ctx, eviction, runPoll, runDispatcher, sem, wg, handler,
                   cache, panicked, polled, executors>>

\* The cache drops the executor of instance i (LRU or idle-TTL eviction).
evict(i) ==
    /\ ~panicked
    /\ eviction = "running"
    /\ cache[i] # 0
    /\ cache' = [cache EXCEPT ![i] = 0]
    /\ UNCHANGED outsideWorker
    /\ UNCHANGED <<options, ctx, eviction, runPoll, runDispatcher, sem, wg, handler,
                   heartbeatTask, panicked, polled, executors>>

\* StartEviction returns when the root context is done.
StartEvictionDone ==
    /\ ~panicked
    /\ eviction = "running"
    /\ ctx = "done"
    /\ eviction' = "done"
    /\ UNCHANGED outsideWorker
    /\ UNCHANGED <<options, ctx, runPoll, runDispatcher, sem, wg, handler,
                   heartbeatTask, cache, panicked, polled, executors>>

NextWorker ==
    \/ Start
    \/ cancel
    \/ \E p \in DOMAIN runPoll : runPollSelect(p)
    \/ \E p \in DOMAIN runPoll, out \in pollOutcomes, i \in Instances : runPollPoll(p, out, i)
    \/ \E p \in DOMAIN runPoll : runDispatcherReceive(p)
    \/ runDispatcherDone
    \/ runDispatcherSpawn
    \/ \E k \in 1..MaxWorkerTasks, got \in UNION {cacheGet(cache, i) : i \in Instances},
          newErr \in BOOLEAN, storeErr \in BOOLEAN : getExecutor(k, got, newErr, storeErr)
    \/ \E k \in 1..MaxWorkerTasks, err \in BOOLEAN : handleTask(k, err)
    \/ \E k \in 1..MaxWorkerTasks, err \in BOOLEAN : handle(k, err)
    \/ \E k \in 1..MaxWorkerTasks, err \in BOOLEAN : heartbeatTaskTick(k, err)
    \/ \E k \in 1..MaxWorkerTasks : heartbeatTaskDone(k)
    \/ \E i \in Instances : evict(i)
    \/ StartEvictionDone

SpecWorker == InitWorkerSpec /\ [][NextWorker]_vars

\* Every goroutine of the worker takes its next step when it can: a poll
\* returns (its context has a timeout), an executor and a backend call
\* return, a select takes a case that stays ready, and the dispatcher takes
\* a task off the channel or sees the context done.
FairSpecWorker ==
    /\ SpecWorker
    /\ \A p \in startedPollers(WorkflowPollers) :
          /\ WF_vars(p \in DOMAIN runPoll /\ runPollSelect(p))
          /\ WF_vars(p \in DOMAIN runPoll /\ \E out \in pollOutcomes, i \in Instances :
                                                runPollPoll(p, out, i))
    /\ WF_vars(runDispatcherDone \/ \E p \in DOMAIN runPoll : runDispatcherReceive(p))
    /\ WF_vars(runDispatcherSpawn)
    /\ \A k \in 1..MaxWorkerTasks :
          /\ WF_vars(\E got \in UNION {cacheGet(cache, i) : i \in Instances},
                        newErr \in BOOLEAN, storeErr \in BOOLEAN :
                        getExecutor(k, got, newErr, storeErr))
          /\ WF_vars(\E err \in BOOLEAN : handleTask(k, err))
          /\ WF_vars(\E err \in BOOLEAN : handle(k, err))
          /\ WF_vars(heartbeatTaskDone(k))
    /\ WF_vars(StartEvictionDone)

\* No poller, dispatcher or heartbeat goroutine is left: each has returned or
\* was never started, or the process is gone.
Terminated ==
    \/ panicked
    \/ /\ \A p \in DOMAIN runPoll : runPoll[p].pc = "done"
       /\ runDispatcher.pc \in {"none", "done"}
       /\ \A k \in 1..MaxWorkerTasks : heartbeatTask[k] \in {"none", "done"}

\* C24: once the root context is cancelled, every poller, the dispatcher and
\* every heartbeat loop eventually terminates; no poller stays blocked on the
\* internal channel after the dispatcher has exited.
C24_CancelTerminates == (ctx = "done" /\ runDispatcher.pc # "none") ~> Terminated

\* C23: Start launches exactly WorkflowPollers poller loops, one dispatcher
\* and one cache-eviction task.
C23_StartLaunchesPollers ==
    runDispatcher.pc # "none" =>
        /\ Cardinality(DOMAIN runPoll) = options.WorkflowPollers
        /\ eviction # "none"

\* The handlers that have been spawned and have not ended.
RunningHandlers ==
    {k \in 1..MaxWorkerTasks :
        handler[k].pc \in {"getExecutor", "ExecuteTask", "CompleteWorkflowTask"}}

\* C22, the bound: with MaxParallelWorkflowTasks positive no more than that
\* many handlers run at any moment.
C22_AtMostMaxParallel ==
    options.MaxParallelWorkflowTasks > 0 =>
        Cardinality(RunningHandlers) <= options.MaxParallelWorkflowTasks

\* C22, no bound: with MaxParallelWorkflowTasks 0 a dispatcher that has
\* taken a task off the channel can always spawn its handler.
C22_UnboundedWhenZero ==
    (~panicked /\ options.MaxParallelWorkflowTasks = 0 /\ runDispatcher.pc = "sem") =>
        ENABLED runDispatcherSpawn

\* C22, no drop: the dispatcher lets go of a task it took off the channel
\* only by spawning the handler of that task; until a slot is free it keeps
\* the task.
C22_TaskWaitsForSlot ==
    [][runDispatcher.pc = "sem" /\ runDispatcher' # runDispatcher =>
          /\ ~semFull(sem, options.MaxParallelWorkflowTasks)
          /\ handler[runDispatcher.t.ID].pc = "none"
          /\ handler'[runDispatcher.t.ID].pc = "getExecutor"
          /\ handler'[runDispatcher.t.ID].t = runDispatcher.t]_vars

\* C22: the dispatcher runs at most MaxParallelWorkflowTasks handlers at a
\* time when the option is positive and any number when it is 0, and a task
\* it took off the channel waits for a slot and is not dropped.
C22_BoundedDispatch ==
    /\ []C22_AtMostMaxParallel
    /\ []C22_UnboundedWhenZero
    /\ C22_TaskWaitsForSlot

\* The semaphore is full, MaxParallelWorkflowTasks handlers run, and the
\* dispatcher holds one more task, which waits.
C22_Witness ==
    /\ options.MaxParallelWorkflowTasks > 0
    /\ Cardinality(RunningHandlers) = options.MaxParallelWorkflowTasks
    /\ runDispatcher.pc = "sem"
    /\ runDispatcher.t.ID \notin RunningHandlers
    /\ ~panicked

\* The handler of task k is at work: in the executor or in
\* CompleteWorkflowTask.
Handling(k) == handler[k].pc \in {"ExecuteTask", "CompleteWorkflowTask"}

\* C25, alive: with heartbeating enabled the heartbeat of a task runs, its
\* context not cancelled, as long as the handler is at work, also while
\* CompleteWorkflowTask is in progress.
C25_HeartbeatWhileHandling ==
    \A k \in 1..MaxWorkerTasks :
        (options.HeartbeatWorkflowTasks /\ ctx = "live" /\ ~panicked /\ Handling(k)) =>
            heartbeatTask[k] = "running"

\* C25, ended: no ExtendWorkflowTask is issued for a task whose handler has
\* terminated.
C25_NoHeartbeatAfterHandler ==
    [][\A k \in 1..MaxWorkerTasks, err \in BOOLEAN :
          heartbeatTaskTick(k, err) => handler[k].pc \notin {"done", "panic"}]_vars

\* C25: the heartbeat of a workflow task lives exactly as long as its
\* handler: ExtendWorkflowTask keeps being issued from the start of handling
\* until the handler terminates, CompleteWorkflowTask included, and never
\* after the handler has terminated.
C25_HeartbeatLivesWithHandler ==
    /\ []C25_HeartbeatWhileHandling
    /\ C25_NoHeartbeatAfterHandler

\* The handler of task k gets an executor error: workflow.NewExecutor fails
\* in getExecutor, or executor.ExecuteTask returns an error.
ExecutorError(k) ==
    \/ \E got \in UNION {cacheGet(cache, i) : i \in Instances}, storeErr \in BOOLEAN :
          getExecutor(k, got, TRUE, storeErr)
    \/ handleTask(k, TRUE)

\* C26: an executor error ends the handler without CompleteWorkflowTask, the
\* handler releases its dispatcher slot, and the worker goes on handling
\* other tasks.
C26_ExecutorErrorNotFatal ==
    [][\A k \in 1..MaxWorkerTasks :
          ExecutorError(k) =>
              /\ handler'[k].pc \notin {"CompleteWorkflowTask", "done"}
              /\ options.MaxParallelWorkflowTasks > 0 => sem' = sem - 1
              /\ ~panicked']_vars

\* The executors handed to handlers so far.
UsedExecutors == {handler[k].executor : k \in 1..MaxWorkerTasks} \ {0}

\* C30, one call: on a hit getExecutor returns the executor the cache holds
\* and builds none, on a miss it builds a new one; the executor is stored in
\* the cache unless Store fails; an error of Get or Store is logged and the
\* task goes on.
C30_GetExecutor ==
    [][\A k \in 1..MaxWorkerTasks, got \in UNION {cacheGet(cache, i) : i \in Instances},
          newErr \in BOOLEAN, storeErr \in BOOLEAN :
          getExecutor(k, got, newErr, storeErr) =>
              LET i == handler[k].t.WorkflowInstance IN
              /\ got.ok =>
                    /\ handler'[k].executor = cache[i]
                    /\ executors' = executors
              /\ (~got.ok /\ ~newErr) =>
                    /\ handler'[k].executor \notin UsedExecutors \cup {0}
                    /\ handler'[k].executor \notin {cache[j] : j \in Instances}
                    /\ executors' = executors + 1
              /\ (~newErr /\ ~storeErr) => cache'[i] = handler'[k].executor
              /\ ~newErr =>
                    /\ handler'[k].pc = "ExecuteTask"
                    /\ ~panicked']_vars

\* C30, the cache: the executor cached for an instance is one that a task of
\* that instance was given, and it leaves the cache only by eviction or by
\* the next task's Store.
C30_CachedIsLastUsed ==
    \A i \in Instances :
        cache[i] # 0 =>
            \E k \in 1..MaxWorkerTasks :
                /\ handler[k].t # NoTask
                /\ handler[k].t.WorkflowInstance = i
                /\ handler[k].executor = cache[i]

C30_KeptUntilEvicted ==
    [][\A i \in Instances :
          (cache[i] # 0 /\ cache'[i] # cache[i]) =>
              \/ evict(i)
              \/ \E k \in 1..MaxWorkerTasks :
                    /\ handler[k].pc = "getExecutor"
                    /\ handler[k].t.WorkflowInstance = i
                    /\ cache'[i] = handler'[k].executor]_vars

\* C30: getExecutor reuses the cached executor of the task's instance and
\* builds one only on a miss, stores the executor in either case, and a
\* cache error never fails the task; so two successive tasks of an instance
\* on one worker run on the same executor unless the cache lost it in
\* between.
C30_ExecutorReuse ==
    /\ C30_GetExecutor
    /\ []C30_CachedIsLastUsed
    /\ C30_KeptUntilEvicted

\* Two tasks of one instance were handled one after the other on the same
\* executor, which the cache still holds.
C30_Witness ==
    \E k1, k2 \in 1..MaxWorkerTasks :
        /\ k1 # k2
        /\ handler[k1].pc = "done"
        /\ handler[k2].pc = "ExecuteTask"
        /\ handler[k1].t.WorkflowInstance = handler[k2].t.WorkflowInstance
        /\ handler[k1].executor = handler[k2].executor
        /\ cache[handler[k2].t.WorkflowInstance] = handler[k2].executor

\* ------------------------------------------------- checkpoints that fail
\* The error of a Redis command that the server did not run.
ErrBackendUnavailable == [msg |-> "connection refused"]

\* What makes a backend call fail before it changes anything: the context is
\* done, or the backend cannot be reached.
BackendErrors == {ErrContextDone, ErrBackendUnavailable}

\* handle retrying the checkpoint: the handler keeps the task after the error.
handleCompleteErrorRetry(t) == t

\* handle after CompleteWorkflowTask returned an error: logger.Panic, the
\* handler is gone and so is its hold on the task.
handleCompleteError(t) == NoTask

\* CompleteWorkflowTask of worker w's handler failing with err before the
\* checkpoint runs: storage is unchanged and the handler ends.
CompleteWorkflowTaskFails(w, err) ==
    /\ pc[w] = "idle"
    /\ task[w] # NoTask
    /\ ret' = Ret("CompleteWorkflowTask", err, task[w])
    /\ task' = [task EXCEPT ![w] = handleCompleteError(@)]
    /\ UNCHANGED <<backendVars, pc, evCount, appended>>
    /\ UNCHANGED otherVars

\* The execution results of handlers that schedule no activity and send
\* nothing to other instances.
LocalResults == {res \in ExecutionResults : res.mode = "task" /\ ~res.routes}

\* The backend with workers whose checkpoints succeed or fail: clients
\* create instances, workers poll, handlers checkpoint, leases age.
NextFailure ==
    \/ \E i \in Instances : CreateWorkflowInstance(i)
    \/ \E w \in Workers : GetWorkflowTaskRecover(w)
    \/ \E w \in Workers : GetWorkflowTaskRead(w)
    \/ \E w \in Workers, res \in LocalResults : CompleteWorkflowTask(w, res, Nil)
    \/ \E w \in Workers, err \in BackendErrors : CompleteWorkflowTaskFails(w, err)
    \/ Tick

SpecFailure == Init /\ [][NextFailure]_vars

\* GetWorkflowTask by worker w recovers task id t.
RecoverTask(w, t) ==
    /\ GetWorkflowTaskRecover(w)
    /\ ret'.task.taskID = t

\* Time passes and every worker goes on polling: a poller calls
\* GetWorkflowTask again after every call that returns, so a recovery that is
\* possible again and again happens. The backend is not
\* failing for ever: a worker that handles tasks again and again has a
\* checkpoint that succeeds. Polls are far more frequent than lock timeouts,
\* so a task whose lease has lapsed is not kept from recovery for ever by the
\* lapsing leases of tasks queued before it.
FairSpecFailure ==
    /\ SpecFailure
    /\ WF_vars(Tick)
    /\ \A w \in Workers :
          /\ WF_vars(GetWorkflowTaskRecover(w))
          /\ WF_vars(GetWorkflowTaskRead(w))
          /\ SF_vars(\E res \in LocalResults : CompleteWorkflowTask(w, res, Nil))
          /\ \A t \in 1..MaxTaskId : SF_vars(RecoverTask(w, t))

\* The last call was a CompleteWorkflowTask for task id t that failed with a
\* backend error.
CompleteFailed(t) ==
    /\ ret.op = "CompleteWorkflowTask"
    /\ ret.error \in BackendErrors
    /\ ret.task.taskID = t

\* C27, no retry and no loss: a CompleteWorkflowTask that fails changes
\* nothing in the backend, the handler ends without the task, and the task
\* is still in the stream and in the pending entries list of the workflow
\* queue.
C27_FailedTaskStaysQueued ==
    [][\A w \in Workers, err \in BackendErrors :
          CompleteWorkflowTaskFails(w, err) =>
              /\ UNCHANGED backendVars
              /\ task'[w] = NoTask
              /\ InStream(wfq, task[w].taskID) => InStream(wfq', task[w].taskID)
              /\ InPel(wfq, task[w].taskID) => InPel(wfq', task[w].taskID)]_vars

\* C27, not before the lease lapses: a task whose checkpoint failed is
\* handed out again only when its pending entry has been idle for the lock
\* timeout.
C27_RedeliveredAfterLapse ==
    [][\A t \in 1..MaxTaskId :
          (CompleteFailed(t) /\ ret'.op = "GetWorkflowTask" /\ ret'.task.taskID = t) =>
              PelEntry(wfq, t).idle >= LockTimeout]_vars

\* The checkpoint of task id t failed and left the task leased to a handler
\* that is gone: no worker holds it.
Orphaned(t) ==
    /\ CompleteFailed(t)
    /\ InPel(wfq, t)
    /\ \A v \in Workers : task[v].taskID # t

\* C27, redelivery: the task of a failed checkpoint is delivered again.
C27_EventuallyRedelivered ==
    \A t \in 1..MaxTaskId :
        Orphaned(t) ~> (ret.op = "GetWorkflowTask" /\ ret.task.taskID = t)

UnitsPerSecond == 2
\* The clock stops at MaxNow ticks.
MaxNow == 4
\* Longest delay of a timer, in ticks.
MaxDelay == 2
\* Largest stream id of the workflow queue and longest history in runs with
\* timers.
MaxFutureTaskId == 4
MaxFutureHist == 6

\* time.Time.Unix(): the whole seconds of a time given in ticks.
Unix(t) == t \div UnitsPerSecond

\* futureEventKey(instanceID, scheduleEventID)
futureEventKey(i, sid) == <<"future", i, sid>>

\* json.Marshal of futureEvent{Instance, Event} and its inverse.
marshalFutureEvent(i, ev) == [json |-> "object", value |-> [Instance |-> i, Event |-> ev]]
unmarshalFutureEvent(s) == s.value

\* addFutureEventCmd: ZADD sets the key's score, SET its payload; a key that
\* is there already is overwritten.
addFutureEventCmd(fut, key, score, payload) ==
    {f \in fut : f.key # key} \cup {[key |-> key, score |-> score, payload |-> payload]}

\* addFutureEventP keeping the event in the index with no score: due at once.
addFutureEventPUnscored(fut, i, ev) ==
    addFutureEventCmd(fut, futureEventKey(i, ev.ScheduleEventID), -1,
                      marshalFutureEvent(i, ev))

\* addFutureEventP: the event is indexed under its instance and schedule event
\* id with the whole seconds of its VisibleAt as score.
addFutureEventP(fut, i, ev) ==
    addFutureEventCmd(fut, futureEventKey(i, ev.ScheduleEventID), Unix(ev.VisibleAt),
                      marshalFutureEvent(i, ev))

\* removeFutureEventCmd: ZREM and DEL of the key.
removeFutureEventCmd(fut, key) == {f \in fut : f.key # key}

\* removeFutureEventP: the event's key leaves the index.
removeFutureEventP(fut, i, ev) ==
    removeFutureEventCmd(fut, futureEventKey(i, ev.ScheduleEventID))

\* The events an executor creates for timers: the scheduling and cancelling
\* ones are recorded in the history, the firing one is routed with VisibleAt.
TimerEvent(id, type, sid, at) ==
    [id |-> id, type |-> type, seq |-> 0, ScheduleEventID |-> sid, VisibleAt |-> at]

\* The order of the sorted set: by score, members of equal score by key.
InstanceRank(i) == IF i = "i1" THEN 1 ELSE 2

FutureBefore(f, g) ==
    \/ f.score < g.score
    \/ /\ f.score = g.score
       /\ \/ InstanceRank(f.key[2]) < InstanceRank(g.key[2])
          \/ f.key[2] = g.key[2] /\ f.key[3] <= g.key[3]

\* An indexed event is due at time t when the second of its visibility time
\* has passed.
Due(f, t) == f.score < Unix(t)

\* The sweep of GetWorkflowTask at time t on the backend state b and the index
\* fut: every due item leaves the index, its event is appended to the pending
\* stream of its instance and the instance is put on the workflow queue.
RECURSIVE scheduleFutureEvents(_, _, _)
scheduleFutureEvents(b, fut, t) ==
    LET due == {f \in fut : Due(f, t)} IN
    IF due = {} THEN [b |-> b, future |-> fut]
    ELSE LET f == CHOOSE x \in due : \A y \in due : FutureBefore(x, y)
             fe == unmarshalFutureEvent(f.payload)
             j == fe.Instance
             b1 == [b EXCEPT
                      !.pending[j] = addEventToStreamP(@, b.pendingLast[j], fe.Event),
                      !.pendingLast[j] = @ + 1,
                      !.wfq = Enqueue(@, j, workflowTaskData(b.pendingLast[j] + 1))]
         IN scheduleFutureEvents(b1, fut \ {f}, t)

\* The task.Workflow built from a dequeued item when the pending streams are
\* pend.
WorkflowTaskOf(pend, item) ==
    LET t == msgToTaskItem(item, ZeroWorkflowTaskData)
        s == pend[t.id]
    IN [taskID |-> t.taskID, id |-> t.id, data |-> t.data,
        newEvents |-> [k \in 1..Len(s) |-> unmarshalEvent(s[k].event)],
        lastPending |-> IF s = <<>> THEN 0 ELSE s[Len(s)].msgid]

\* GetWorkflowTask with its sweep: the due future events are promoted, then
\* Dequeue recovers an abandoned task or goes on to read new ones.
GetWorkflowTaskFuture(w) ==
    /\ pc[w] = "idle"
    /\ task[w] = NoTask
    /\ LET s == scheduleFutureEvents(Backend, future, now)
           r == recover(s.b.wfq, w, LockTimeout)
       IN /\ s.b.wfq.lastID <= MaxFutureTaskId
          /\ future' = s.future
          /\ pending' = s.b.pending
          /\ pendingLast' = s.b.pendingLast
          /\ IF r.item # NoTask
             THEN /\ wfq' = r.q
                  /\ task' = [task EXCEPT ![w] = WorkflowTaskOf(s.b.pending, r.item)]
                  /\ ret' = Ret("GetWorkflowTask", NoError,
                                WorkflowTaskOf(s.b.pending, r.item))
                  /\ UNCHANGED pc
             ELSE /\ wfq' = s.b.wfq
                  /\ pc' = [pc EXCEPT ![w] = "read"]
                  /\ ret' = NoRet
                  /\ UNCHANGED task
    /\ UNCHANGED <<actq, instance, history, evCount, appended>>
    /\ UNCHANGED <<workerVars, now, call>>

\* The sequence ids of the events of the given type in the history of i.
TimersOfType(i, type) ==
    {unmarshalEvent(history[i][k]).seq : k \in
        {n \in 1..Len(history[i]) : unmarshalEvent(history[i][n]).type = type}}

\* Every timer command of the model.
AllTimerCommands ==
    {[op |-> "none"]}
    \cup {[op |-> "schedule", delay |-> d] : d \in 1..MaxDelay}
    \cup {[op |-> "cancel", sid |-> s] : s \in 1..MaxFutureHist}

\* What the executor of a task of instance i decides about timers: nothing,
\* a new timer firing after some delay, or the cancellation of a timer it
\* scheduled before.
TimerCommands(i) ==
    {cmd \in AllTimerCommands :
        cmd.op = "cancel" => cmd.sid \in TimersOfType(i, "TimerScheduled")}

\* The events the executor records for a timer command, in a history that
\* has n events before them.
TimerExecuted(i, n, cmd) ==
    CASE cmd.op = "none" -> <<>>
      [] cmd.op = "schedule" ->
             <<NewPendingEvent(ExecutorEventID(i, n + 1), "TimerScheduled")>>
      [] cmd.op = "cancel" ->
             <<[id |-> ExecutorEventID(i, n + 1), type |-> "TimerCanceled", seq |-> 0,
                ScheduleEventID |-> cmd.sid]>>

\* CompleteWorkflowTask by the handler of worker w whose executor decided cmd:
\* the TimerFired event of a new timer is routed to the instance itself with
\* VisibleAt set and goes to the future-event index; a cancelled timer's
\* event is removed from the index.
CompleteWorkflowTaskTimer(w, cmd) ==
    /\ pc[w] = "idle"
    /\ task[w] # NoTask
    /\ cmd \in TimerCommands(task[w].id)
    /\ LET t == task[w]
           i == t.id
           before == ExecutedEvents(t, i, "task")
           executed == before \o TimerExecuted(i, Len(history[i]) + Len(before), cmd)
           sid == LastSequenceID(history[i]) + Len(executed)
           fired == TimerEvent([inst |-> i, by |-> "timer", n |-> sid], "TimerFired",
                               sid, now + cmd.delay)
           r == CompleteWorkflowTaskTx(Backend, t, i, "Active", executed, <<>>, <<>>)
       IN /\ ~r.err => Len(history[i]) + Len(executed) <= MaxFutureHist
          /\ wfq' = r.b.wfq
          /\ actq' = r.b.actq
          /\ instance' = r.b.instance
          /\ history' = r.b.history
          /\ pending' = r.b.pending
          /\ pendingLast' = r.b.pendingLast
          /\ future' = CASE r.err -> future
                         [] cmd.op = "schedule" -> addFutureEventP(future, i, fired)
                         [] cmd.op = "cancel" ->
                                removeFutureEventP(future, i, [ScheduleEventID |-> cmd.sid])
                         [] OTHER -> future
          /\ appended' = IF r.err THEN appended
                         ELSE [appended EXCEPT ![i] = @ \o executed]
          /\ ret' = Ret("CompleteWorkflowTask", IF r.err THEN ErrCompleteTask ELSE NoError, t)
    /\ task' = [task EXCEPT ![w] = NoTask]
    /\ UNCHANGED <<pc, evCount>>
    /\ UNCHANGED <<workerVars, now, call>>

\* Time passes: the clock is one tick later and every pending entry has been
\* idle one tick longer.
Tock ==
    /\ now < MaxNow
    /\ now' = now + 1
    /\ wfq' = Age(wfq)
    /\ actq' = Age(actq)
    /\ ret' = NoRet
    /\ UNCHANGED <<instance, history, pending, pendingLast, task, pc, evCount, appended>>
    /\ UNCHANGED <<workerVars, future, call>>

\* The backend with timers: clients create and signal instances, workers
\* poll with the sweep of the future events, handlers checkpoint timer
\* commands, time passes.
NextFuture ==
    \/ \E i \in Instances : CreateWorkflowInstance(i)
    \/ \E i \in Instances : SignalWorkflow(i)
    \/ \E w \in Workers : GetWorkflowTaskFuture(w)
    \/ \E w \in Workers : GetWorkflowTaskRead(w)
    \/ \E w \in Workers, cmd \in AllTimerCommands : CompleteWorkflowTaskTimer(w, cmd)
    \/ Tock

SpecFuture == Init /\ [][NextFuture]_vars

\* The events of a pending stream.
EventsOf(stream) == [k \in 1..Len(stream) |-> unmarshalEvent(stream[k].event)]

\* The TimerFired events of schedule event id sid in a sequence of events.
FiredIn(events, sid) ==
    {k \in 1..Len(events) :
        events[k].type = "TimerFired" /\ events[k].ScheduleEventID = sid}

\* The TimerFired events among events.
Fired(events) == {events[k] : k \in {n \in 1..Len(events) : events[n].type = "TimerFired"}}

\* The indexed entries of the timer sid of instance i.
Indexed(fut, i, sid) == {f \in fut : f.key = futureEventKey(i, sid)}

\* In how many places the TimerFired event of the timer sid of instance i is:
\* the index, the pending stream, the history.
Places(i, sid) ==
    Cardinality(Indexed(future, i, sid))
    + Cardinality(FiredIn(PendingEvents(i), sid))
    + Cardinality(FiredIn(GetWorkflowInstanceHistory(i), sid))

\* C21, stored: a checkpoint that routes an event with a VisibleAt later than
\* now puts it in the future-event index, under the key of its instance and
\* schedule event id, and not in the pending stream.
C21_StoredInIndex ==
    [][\A w \in Workers, cmd \in AllTimerCommands :
          (CompleteWorkflowTaskTimer(w, cmd) /\ cmd.op = "schedule" /\ ~ret'.err) =>
              LET i == task[w].id
                  sid == LastSequenceID(history'[i])
              IN /\ \E f \in Indexed(future', i, sid) :
                       /\ unmarshalFutureEvent(f.payload).Instance = i
                       /\ unmarshalFutureEvent(f.payload).Event.type = "TimerFired"
                       /\ unmarshalFutureEvent(f.payload).Event.VisibleAt = now + cmd.delay
                       /\ f.score = Unix(now + cmd.delay)
                 /\ Indexed(future, i, sid) = {}
                 /\ FiredIn(EventsOf(pending'[i]), sid) = {}]_vars

\* C21, not early: no future event is in a pending stream or among the new
\* events of a task before its visibility time.
C21_NotBeforeVisible ==
    /\ \A i \in Instances : \A e \in Fired(PendingEvents(i)) : e.VisibleAt <= now
    /\ \A w \in Workers :
          task[w] # NoTask => \A e \in Fired(task[w].newEvents) : e.VisibleAt <= now

\* C21, the sweep: a GetWorkflowTask moves, in its one step, every indexed
\* event whose time has passed to the end of the pending stream of its
\* instance and puts the instance on the workflow queue; it leaves the other
\* events in the index.
C21_SweepPromotes ==
    [][\A w \in Workers :
          GetWorkflowTaskFuture(w) =>
              \A f \in future :
                  LET fe == unmarshalFutureEvent(f.payload)
                      j == fe.Instance
                      sid == fe.Event.ScheduleEventID
                  IN IF Due(f, now)
                     THEN /\ f \notin future'
                          /\ Cardinality(FiredIn(EventsOf(pending'[j]), sid)) = 1
                          /\ FiredIn(PendingEvents(j), sid) = {}
                          /\ j \in wfq'.set
                          /\ \E m \in SeqToSet(wfq'.stream) : m.id = j
                     ELSE /\ f \in future'
                          /\ FiredIn(EventsOf(pending'[j]), sid) = {}]_vars

\* C21, exactly once: the event of every timer an instance scheduled is in
\* exactly one place, the index, the pending stream or the history, and only
\* the event of a cancelled timer may be in none.
C21_ExactlyOnce ==
    \A i \in Instances : \A sid \in TimersOfType(i, "TimerScheduled") :
        /\ Places(i, sid) <= 1
        /\ Places(i, sid) = 0 =>
               \E k \in 1..Len(history[i]) :
                   /\ unmarshalEvent(history[i][k]).type = "TimerCanceled"
                   /\ unmarshalEvent(history[i][k]).ScheduleEventID = sid

\* C21, leaving the index: an event leaves the index only by the sweep of a
\* GetWorkflowTask or by the checkpoint that cancels its timer.
C21_OnlySweepPromotes ==
    [][\A f \in future :
          f \notin future' =>
              \/ \E w \in Workers : GetWorkflowTaskFuture(w) /\ Due(f, now)
              \/ \E w \in Workers :
                    CompleteWorkflowTaskTimer(w, [op |-> "cancel", sid |-> f.key[3]])]_vars

MaxParams == 2
MaxInputs == 2

ActivityNames == {"a", "b"}

\* What is registered as an activity: a function, with or without a leading
\* context parameter, with its other parameters, its number of return values
\* and whether it returns an error when called; or a value that is no
\* function.
Activities ==
    [kind : {"func"}, ctx : BOOLEAN, params : 0..MaxParams, returns : 0..3, fails : BOOLEAN]
    \cup {[kind |-> "value"]}

\* The registries of the model: nothing registered, or one activity under one
\* name.
EmptyRegistry == [n \in {} |-> Nil]

Registries ==
    {EmptyRegistry} \cup {[n \in {x} |-> e] : x \in ActivityNames, e \in Activities}

\* The activity tasks of the model: ActivityScheduledAttributes{Name, Inputs}.
ActivityTasks == [Name : ActivityNames, Inputs : 0..MaxInputs]

ErrActivityNotFound == [msg |-> "activity not found"]

ErrMismatchedArgumentCount(expected, got) ==
    [msg |-> "mismatched argument count", expected |-> expected, got |-> got]

ErrActivityFailed == [msg |-> "activity failed"]

\* Registry.GetActivity: the activity registered under the name, or an error.
GetActivity(reg, name) ==
    IF name \in DOMAIN reg
    THEN [activity |-> reg[name], err |-> NoError]
    ELSE [activity |-> Nil, err |-> ErrActivityNotFound]

\* args.InputsToArgs: the inputs must be as many as the function's parameters
\* without its context; the arguments have a free place for the context.
InputsToArgs(fn, inputs) ==
    IF inputs # fn.params
    THEN [args |-> 0, addContext |-> FALSE,
          err |-> ErrMismatchedArgumentCount(fn.params, inputs)]
    ELSE [args |-> inputs + (IF fn.ctx THEN 1 ELSE 0), addContext |-> fn.ctx,
          err |-> NoError]

\* activityFn.Call: what the function returns, the error last.
Call(fn) ==
    [returns |-> fn.returns,
     result |-> IF fn.returns > 1 THEN [payload |-> "result"] ELSE Nil,
     err |-> IF fn.fails THEN ErrActivityFailed ELSE NoError]

\* What ExecuteActivity returns, and whether it called the function.
Executed(result, err, invoked) == [result |-> result, err |-> err, invoked |-> invoked]

\* ExecuteActivity calling the function whatever InputsToArgs returned.
ExecuteActivityAnyInputs(reg, t) ==
    LET got == GetActivity(reg, t.Name)
        fn == got.activity
    IN IF got.err # NoError THEN Executed(Nil, got.err, FALSE)
       ELSE IF fn.kind # "func"
       THEN Executed(Nil, [msg |-> "activity not a function"], FALSE)
       ELSE LET r == Call(fn) IN
            IF r.returns < 1 \/ r.returns > 2
            THEN Executed(Nil, [msg |-> "activity has to return either (error) or (<result>, error)"],
                          TRUE)
            ELSE Executed(r.result, r.err, TRUE)

\* Executor.ExecuteActivity for the task t with the registry reg.
ExecuteActivity(reg, t) ==
    LET got == GetActivity(reg, t.Name)
        fn == got.activity
    IN IF got.err # NoError THEN Executed(Nil, got.err, FALSE)
       ELSE IF fn.kind # "func"
       THEN Executed(Nil, [msg |-> "activity not a function"], FALSE)
       ELSE LET in == InputsToArgs(fn, t.Inputs) IN
            IF in.err # NoError
            THEN Executed(Nil, Errorf("converting activity inputs", in.err), FALSE)
            ELSE LET r == Call(fn) IN
                 IF r.returns < 1 \/ r.returns > 2
                 THEN Executed(Nil,
                               [msg |-> "activity has to return either (error) or (<result>, error)"],
                               TRUE)
                 ELSE Executed(r.result, r.err, TRUE)

\* err.Error(): the messages of an error and of the errors it wraps, which
\* fmt.Errorf joins with ": ".
RECURSIVE ErrorText(_)
ErrorText(err) ==
    IF "wraps" \in DOMAIN err
    THEN <<err.msg>> \o ErrorText(err.wraps)
    ELSE IF "expected" \in DOMAIN err
    THEN <<err.msg, <<"expected", err.expected>>, <<"got", err.got>>>>
    ELSE <<err.msg>>

\* strings.Contains on error texts.
Contains(text, part) ==
    \E k \in 0..(Len(text) - Len(part)) : SubSeq(text, k + 1, k + Len(part)) = part

\* The event the activity worker completes the task with: ActivityFailed with
\* the error's text as reason, ActivityCompleted with the result.
ActivityResultEvent(out) ==
    IF out.err # NoError
    THEN [type |-> "ActivityFailed", Reason |-> ErrorText(out.err)]
    ELSE [type |-> "ActivityCompleted", Result |-> out.result]

\* What the workflow gets from the activity's future for the event.
ActivityFuture(ev) ==
    IF ev.type = "ActivityFailed"
    THEN [result |-> Nil, err |-> [text |-> ev.Reason]]
    ELSE [result |-> ev.Result, err |-> NoError]

\* An activity worker with the registry reg has dequeued the task t.
ActivityCall(reg, t) ==
    [op |-> "ExecuteActivity", pc |-> "dequeued", registry |-> reg, task |-> t]

InitExecuteActivity ==
    /\ InitBackend
    /\ InitWorker(DefaultOptions)
    /\ call \in {ActivityCall(reg, t) : reg \in Registries, t \in ActivityTasks}

\* The activity worker runs ExecuteActivity for the task.
ExecuteActivityCall ==
    /\ call.op = "ExecuteActivity"
    /\ call.pc = "dequeued"
    /\ call' = [op |-> call.op, pc |-> "executed", registry |-> call.registry,
                task |-> call.task, out |-> ExecuteActivity(call.registry, call.task)]
    /\ UNCHANGED <<clientVars, workerVars, future, now>>

\* The activity worker completes the task with the event for the outcome.
CompleteActivityCall ==
    /\ call.op = "ExecuteActivity"
    /\ call.pc = "executed"
    /\ call' = [op |-> call.op, pc |-> "completed", registry |-> call.registry,
                task |-> call.task, out |-> call.out,
                event |-> ActivityResultEvent(call.out)]
    /\ UNCHANGED <<clientVars, workerVars, future, now>>

\* The workflow replays the event: the activity's future resolves.
ResolveActivityCall ==
    /\ call.op = "ExecuteActivity"
    /\ call.pc = "completed"
    /\ call' = [op |-> call.op, pc |-> "resolved", registry |-> call.registry,
                task |-> call.task, out |-> call.out, event |-> call.event,
                resolved |-> ActivityFuture(call.event)]
    /\ UNCHANGED <<clientVars, workerVars, future, now>>

NextExecuteActivity ==
    \/ ExecuteActivityCall
    \/ CompleteActivityCall
    \/ ResolveActivityCall

SpecExecuteActivity == InitExecuteActivity /\ [][NextExecuteActivity]_vars

\* The activity of the call's task is not registered.
Unregistered == call.task.Name \notin DOMAIN call.registry

\* The activity of the call's task is a registered function and the task's
\* inputs are not as many as its parameters.
Mismatched ==
    /\ call.task.Name \in DOMAIN call.registry
    /\ call.registry[call.task.Name].kind = "func"
    /\ call.task.Inputs # call.registry[call.task.Name].params

\* The error ExecuteActivity is to return for the call.
ExpectedError ==
    IF Unregistered THEN ErrActivityNotFound
    ELSE Errorf("converting activity inputs",
                ErrMismatchedArgumentCount(call.registry[call.task.Name].params,
                                           call.task.Inputs))

\* C28: for an activity that is not registered, or whose scheduled inputs do
\* not match the function's parameters, ExecuteActivity does not call the
\* function and returns a nil result with the error "activity not found",
\* respectively "converting activity inputs: mismatched argument count ...";
\* the error reaches the workflow as the failure of the activity.
C28_NoInvocationOnBadActivity ==
    (call.op = "ExecuteActivity" /\ (Unregistered \/ Mismatched)) =>
        /\ call.pc # "dequeued" =>
              /\ ~call.out.invoked
              /\ call.out.result = Nil
              /\ call.out.err = ExpectedError
              /\ Unregistered => ErrorText(call.out.err) = <<"activity not found">>
              /\ Mismatched =>
                    Contains(ErrorText(call.out.err),
                             <<"converting activity inputs", "mismatched argument count">>)
        /\ call.pc \in {"completed", "resolved"} =>
              /\ call.event.type = "ActivityFailed"
              /\ call.event.Reason = ErrorText(ExpectedError)
        /\ call.pc = "resolved" =>
              /\ call.resolved.result = Nil
              /\ call.resolved.err # NoError
              /\ call.resolved.err.text = ErrorText(ExpectedError)

\* The workflow got the failure of an activity scheduled with one input for a
\* function of two parameters.
C28_Witness ==
    /\ call.op = "ExecuteActivity"
    /\ call.pc = "resolved"
    /\ Mismatched
    /\ call.task.Inputs = 1
    /\ call.registry[call.task.Name].params = 2
    /\ ~call.out.invoked

\* ------------------------------------------------------ GetWorkflowResult
\* Longest history GetWorkflowResult reads, and the longest timeout a caller
\* passes, in ticks of the client's one-second ticker.
MaxResultHist == 2
MaxTimeout == 1
\* The timeout WaitForWorkflowInstance uses when the caller passes none.
DefaultTimeout == 20

ErrWorkflowCanceled == [msg |-> "workflow canceled"]
ErrWorkflowTerminated == [msg |-> "workflow terminated"]

\* The result types T of the callers and the payloads workflows finish with.
ResultTypes == {"int", "string"}

Payloads == {[json |-> "number", text |-> "42"], [json |-> "string", text |-> "ok"]}

\* *new(T): the zero value of the type.
ZeroValue(T) == IF T = "int" THEN [type |-> "int", value |-> 0]
                ELSE [type |-> "string", value |-> ""]

\* converter.DefaultConverter.From(payload, &r): JSON of the kind of T is
\* decoded into r, any other is an error.
From(p, T) ==
    CASE T = "int" /\ p.json = "number" ->
             [value |-> [type |-> "int", value |-> 42], err |-> NoError]
      [] T = "string" /\ p.json = "string" ->
             [value |-> [type |-> "string", value |-> p.text], err |-> NoError]
      [] OTHER ->
             [value |-> ZeroValue(T), err |-> [msg |-> "json: cannot unmarshal"]]

\* The events of the histories GetWorkflowResult reads.
ResultEvents ==
    {[type |-> "ExecutionStarted"], [type |-> "ExecutionCanceled"],
     [type |-> "ExecutionTerminated"]}
    \cup [type : {"ExecutionFinished"}, Error : {""}, Result : Payloads]
    \cup {[type |-> "ExecutionFinished", Error |-> "boom",
            Result |-> [json |-> "null", text |-> ""]]}

ResultHistories == UNION {[1..n -> ResultEvents] : n \in 0..MaxResultHist}

TerminalTypes == {"ExecutionFinished", "ExecutionCanceled", "ExecutionTerminated"}

\* errors.New(text)
errorsNew(text) == [msg |-> text]

\* What GetWorkflowResult returns.
Result(value, err) == [value |-> value, err |-> err]

\* The case for ExecutionFinished without the check of the error field.
eventResultNoError(e, T) ==
    CASE e.type = "ExecutionFinished" ->
             LET c == From(e.Result, T) IN
             IF c.err # NoError
             THEN Result(ZeroValue(T), Errorf("converting result", c.err))
             ELSE Result(c.value, NoError)
      [] e.type = "ExecutionCanceled" -> Result(ZeroValue(T), ErrWorkflowCanceled)
      [] e.type = "ExecutionTerminated" -> Result(ZeroValue(T), ErrWorkflowTerminated)

\* The switch of GetWorkflowResult for a terminal event.
eventResult(e, T) ==
    CASE e.type = "ExecutionFinished" ->
             IF e.Error # ""
             THEN Result(ZeroValue(T), errorsNew(e.Error))
             ELSE LET c == From(e.Result, T) IN
                  IF c.err # NoError
                  THEN Result(ZeroValue(T), Errorf("converting result", c.err))
                  ELSE Result(c.value, NoError)
      [] e.type = "ExecutionCanceled" -> Result(ZeroValue(T), ErrWorkflowCanceled)
      [] e.type = "ExecutionTerminated" -> Result(ZeroValue(T), ErrWorkflowTerminated)

\* The loop of GetWorkflowResult over the history h, backwards from place i.
RECURSIVE resultFromHistory(_, _, _)
resultFromHistory(h, i, T) ==
    IF i < 1
    THEN Result(ZeroValue(T), errorsNew("workflow finished, but could not find result event"))
    ELSE IF h[i].type \in TerminalTypes THEN eventResult(h[i], T)
    ELSE resultFromHistory(h, i - 1, T)

\* GetWorkflowResult after WaitForWorkflowInstance returned waitErr.
GetWorkflowResult(waitErr, h, T) ==
    IF waitErr # NoError
    THEN Result(ZeroValue(T), Errorf("workflow did not finish in time", waitErr))
    ELSE resultFromHistory(h, Len(h), T)

\* The timeout WaitForWorkflowInstance waits for.
waitTimeout(timeout) == IF timeout = 0 THEN DefaultTimeout ELSE timeout

ErrWaitTimeout == errorsNew("workflow did not finish in specified timeout")

\* A caller of GetWorkflowResult[T] with a timeout, for an instance in the
\* given state whose history, once it is finished, is h; seen is the state
\* GetWorkflowInstanceState returned to the caller last.
ResultCall(T, timeout, state, h) ==
    [op |-> "GetWorkflowResult", pc |-> "state", T |-> T, timeout |-> timeout,
     state |-> state, history |-> h, elapsed |-> 0, seen |-> "None", out |-> Nil]

InitGetWorkflowResult ==
    /\ InitBackend
    /\ InitWorker(DefaultOptions)
    /\ call \in {ResultCall(T, timeout, state, h) :
                    T \in ResultTypes, timeout \in {0, MaxTimeout},
                    state \in {"Active", "Finished"}, h \in ResultHistories}

\* WaitForWorkflowInstance reads the state of the instance: finished, it
\* returns and GetWorkflowResult reads the history; not finished, it waits
\* for the ticker or the timeout.
WaitGetState ==
    /\ call.op = "GetWorkflowResult"
    /\ call.pc = "state"
    /\ call' = IF call.state = "Finished"
               THEN [call EXCEPT !.pc = "returned", !.seen = call.state,
                                 !.out = GetWorkflowResult(NoError, call.history, call.T)]
               ELSE [call EXCEPT !.pc = "select", !.seen = call.state]
    /\ UNCHANGED <<clientVars, workerVars, future, now>>

\* The ticker fires before the timeout: the state is read again.
WaitTick ==
    /\ call.op = "GetWorkflowResult"
    /\ call.pc = "select"
    /\ call.elapsed < waitTimeout(call.timeout)
    /\ call' = [call EXCEPT !.pc = "state", !.elapsed = @ + 1]
    /\ UNCHANGED <<clientVars, workerVars, future, now>>

\* The timeout passes first: WaitForWorkflowInstance returns its error.
WaitTimeout ==
    /\ call.op = "GetWorkflowResult"
    /\ call.pc = "select"
    /\ call.elapsed >= waitTimeout(call.timeout)
    /\ call' = [call EXCEPT !.pc = "returned",
                            !.out = GetWorkflowResult(ErrWaitTimeout, call.history, call.T)]
    /\ UNCHANGED <<clientVars, workerVars, future, now>>

\* The instance finishes while the caller waits.
InstanceFinishes ==
    /\ call.op = "GetWorkflowResult"
    /\ call.pc \in {"state", "select"}
    /\ call.state = "Active"
    /\ call' = [call EXCEPT !.state = "Finished"]
    /\ UNCHANGED <<clientVars, workerVars, future, now>>

NextGetWorkflowResult ==
    \/ WaitGetState
    \/ WaitTick
    \/ WaitTimeout
    \/ InstanceFinishes

SpecGetWorkflowResult == InitGetWorkflowResult /\ [][NextGetWorkflowResult]_vars

\* The call returned.
Returned == call.op = "GetWorkflowResult" /\ call.pc = "returned"

\* The call returned after it saw the instance finished, and the history has
\* a terminal event; LatestTerminal is the last one.
HasTerminal == \E k \in 1..Len(call.history) : call.history[k].type \in TerminalTypes

LatestTerminal ==
    call.history[CHOOSE k \in 1..Len(call.history) :
                     /\ call.history[k].type \in TerminalTypes
                     /\ \A n \in (k + 1)..Len(call.history) :
                           call.history[n].type \notin TerminalTypes]

ReturnedFinished == Returned /\ call.seen = "Finished" /\ HasTerminal

\* C29 as stated: for a latest terminal event ExecutionFinished the call
\* returns the typed result with no error unless the event's error field is
\* non-empty.
C29_FinishedReturnsResult ==
    (ReturnedFinished /\ LatestTerminal.type = "ExecutionFinished"
        /\ LatestTerminal.Error = "") =>
        /\ call.out.err = NoError
        /\ call.out.value.type = call.T

\* C29, the terminal events: for a finished instance the latest terminal
\* event of the history decides. ExecutionFinished with an error field gives
\* that error; ExecutionFinished without gives the result converted to T and
\* no error, or the converter's error when the result does not convert;
\* ExecutionCanceled gives ErrWorkflowCanceled and ExecutionTerminated gives
\* ErrWorkflowTerminated.
C29_LatestTerminalDecides ==
    ReturnedFinished =>
        LET e == LatestTerminal IN
        CASE e.type = "ExecutionFinished" /\ e.Error # "" ->
                 call.out.err = errorsNew(e.Error)
          [] e.type = "ExecutionFinished" /\ e.Error = "" ->
                 IF From(e.Result, call.T).err = NoError
                 THEN /\ call.out.err = NoError
                      /\ call.out.value = From(e.Result, call.T).value
                      /\ call.out.value.type = call.T
                 ELSE call.out.err = Errorf("converting result", From(e.Result, call.T).err)
          [] e.type = "ExecutionCanceled" -> call.out.err = ErrWorkflowCanceled
          [] e.type = "ExecutionTerminated" -> call.out.err = ErrWorkflowTerminated

\* C29, the timeout: a call that never saw the instance finished returns
\* only when the timeout has passed, and then with the timeout error.
C29_TimeoutError ==
    (Returned /\ call.seen # "Finished") =>
        /\ call.elapsed >= waitTimeout(call.timeout)
        /\ call.out.err = Errorf("workflow did not finish in time", ErrWaitTimeout)

\* C29, the zero value: whenever the call returns an error the value is the
\* zero value of T.
C29_ZeroValueOnError ==
    (Returned /\ call.out.err # NoError) => call.out.value = ZeroValue(call.T)

\* C29, amended: the outcome of GetWorkflowResult is decided by the latest
\* terminal event of a finished instance, including the case of a result
\* that does not convert to T; an instance that does not finish in time
\* gives the timeout error; every error comes with the zero value.
C29_ResultOutcome ==
    /\ C29_LatestTerminalDecides
    /\ C29_TimeoutError
    /\ C29_ZeroValueOnError

\* The call returned a workflow's result for a history in which an
\* ExecutionFinished event follows an ExecutionCanceled one.
C29_Witness ==
    /\ ReturnedFinished
    /\ Len(call.history) = 2
    /\ call.history[1].type = "ExecutionCanceled"
    /\ call.history[2].type = "ExecutionFinished"
    /\ call.out.err = NoError
    /\ call.out.value # ZeroValue(call.T)

\* ---------------------------------------------------------------------
\* Shutdown: WaitForCompletion (src/internal/worker/workflow.go 67-71).
\* ---------------------------------------------------------------------

Waiting == [op |-> "WaitForCompletion", pc |-> "Wait"]

WaitReturned == [op |-> "WaitForCompletion", pc |-> "returned"]

\* The caller enters WaitForCompletion: ww.wg.Wait().
WaitForCompletion ==
    /\ ~panicked
    /\ call = NoCall
    /\ call' = Waiting
    /\ UNCHANGED <<clientVars, workerVars, future, now>>

\* wg.Wait() returns when the counter is 0, and WaitForCompletion returns nil.
WaitForCompletionReturn ==
    /\ ~panicked
    /\ call = Waiting
    /\ wg = 0
    /\ call' = WaitReturned
    /\ UNCHANGED <<clientVars, workerVars, future, now>>

NextShutdown ==
    \/ NextWorker
    \/ WaitForCompletion
    \/ WaitForCompletionReturn

\* The worker with a caller that cancels the root context and waits for the
\* worker to complete, in any order and at any moment.
SpecShutdown == InitWorkerSpec /\ [][NextShutdown]_vars

\* C31, second half: WaitForCompletion does not return while a handler
\* spawned by the dispatcher is in flight.
C31_NoReturnWhileInFlight ==
    [][WaitForCompletionReturn => RunningHandlers = {}]_vars

\* C31: once the root context is cancelled and WaitForCompletion has
\* returned, no workflow task handler is running, and none is started
\* afterwards.
C31_ShutdownComplete ==
    (ctx = "done" /\ call = WaitReturned) => RunningHandlers = {}

\* WaitForCompletion returned after the cancellation while the dispatcher
\* held a task it had taken off the channel.
C31_ReturnedWithTaskInHand ==
    /\ ctx = "done"
    /\ call = WaitReturned
    /\ runDispatcher.pc = "sem"
    /\ ~panicked

\* ---------------------------------------------------------------------
\* The task queue on its own (src/unnamed/part_003): any caller, any
\* argument, in any order.
\* ---------------------------------------------------------------------

\* Stream ids the queue generates in the model.
MaxQueueTaskId == 3

\* Task ids a caller may pass to Extend and Complete: 0 is an id no entry
\* ever had.
QueueTaskIDs == 0..MaxQueueTaskId

\* Enqueue(ctx, p, id, data).
EnqueueCall(id, data) ==
    /\ wfq.lastID < MaxQueueTaskId
    /\ wfq' = Enqueue(wfq, id, data)
    /\ UNCHANGED <<actq, instance, history, pending, pendingLast, task, pc, ret,
                   evCount, appended, otherVars>>

\* Dequeue, first half: recover; an abandoned task is returned at once.
DequeueRecover(w) ==
    /\ pc[w] = "idle"
    /\ LET r == recover(wfq, w, LockTimeout) IN
       /\ wfq' = r.q
       /\ pc' = [pc EXCEPT ![w] = IF r.item = NoTask THEN "read" ELSE "idle"]
    /\ UNCHANGED <<actq, instance, history, pending, pendingLast, task, ret,
                   evCount, appended, otherVars>>

\* Dequeue, second half: XREADGROUP for a new task.
DequeueRead(w) ==
    /\ pc[w] = "read"
    /\ LET r == XReadGroup(wfq, w) IN
       /\ wfq' = r.q
       /\ pc' = [pc EXCEPT ![w] = "idle"]
    /\ UNCHANGED <<actq, instance, history, pending, pendingLast, task, ret,
                   evCount, appended, otherVars>>

\* Extend(ctx, p, taskID) by the queue object of worker w.
ExtendCall(w, taskID) ==
    /\ wfq' = Extend(wfq, w, taskID)
    /\ UNCHANGED <<actq, instance, history, pending, pendingLast, task, pc, ret,
                   evCount, appended, otherVars>>

\* Complete(ctx, p, taskID).
CompleteCall(taskID) ==
    /\ wfq' = Complete(wfq, taskID).q
    /\ UNCHANGED <<actq, instance, history, pending, pendingLast, task, pc, ret,
                   evCount, appended, otherVars>>

\* Time passes: pending entries grow idle.
QueueTick ==
    /\ \E e \in wfq.pel : e.idle < LockTimeout
    /\ wfq' = Age(wfq)
    /\ UNCHANGED <<actq, instance, history, pending, pendingLast, task, pc, ret,
                   evCount, appended, otherVars>>

NextTaskQueue ==
    \/ \E id \in Instances, data \in {NilData, workflowTaskData(0)} : EnqueueCall(id, data)
    \/ \E w \in Workers : DequeueRecover(w)
    \/ \E w \in Workers : DequeueRead(w)
    \/ \E w \in Workers, taskID \in QueueTaskIDs : ExtendCall(w, taskID)
    \/ \E taskID \in QueueTaskIDs : CompleteCall(taskID)
    \/ QueueTick

SpecTaskQueue == Init /\ [][NextTaskQueue]_vars

\* The caller-provided ids of the entries the stream of q holds.
StreamIds(q) == {m.id : m \in SeqToSet(q.stream)}

\* C32, the sets agree: an id is in the dedup set exactly when the stream
\* holds an entry with it, and no two entries of the stream carry one id.
C32_SetIsStream ==
    /\ wfq.set = StreamIds(wfq)
    /\ \A a, b \in 1..Len(wfq.stream) :
          wfq.stream[a].id = wfq.stream[b].id => a = b

\* C32, Complete: completing an entry of the stream removes its id from the
\* set, its pending entry and the stream entry in one step, and the next
\* Enqueue of that id adds an entry.
C32_CompleteRemovesAll ==
    [][\A taskID \in QueueTaskIDs :
          (CompleteCall(taskID) /\ InStream(wfq, taskID)) =>
              LET id == StreamEntry(wfq, taskID).id IN
              /\ id \notin wfq'.set
              /\ ~InPel(wfq', taskID)
              /\ ~InStream(wfq', taskID)
              /\ id \in StreamIds(Enqueue(wfq', id, NilData))]_vars

\* Every pending entry belongs to an entry of the stream.
C32_PelInStream == \A e \in wfq.pel : InStream(wfq, e.taskID)

\* C32: after any sequence of Enqueue, Dequeue, Extend and Complete the
\* dedup set holds exactly the ids of the stream's entries, each once, and
\* Complete removes set member, pending entry and stream entry together so
\* that the id can be enqueued again at once.
C32_QueueConsistent ==
    /\ []C32_SetIsStream
    /\ []C32_PelInStream
    /\ C32_CompleteRemovesAll

\* An id was completed and enqueued again: the queue has generated more
\* entries than there are ids, the newest of them is in the stream, every
\* id is queued and a task is pending.
C32_Witness ==
    /\ wfq.lastID > Cardinality(Instances)
    /\ InStream(wfq, wfq.lastID)
    /\ wfq.pel # {}
    /\ Len(wfq.stream) = Cardinality(Instances)

\* ---------------------------------------------------------------------
\* poll (src/internal/worker/workflow.go 200-225) step by step: the
\* goroutine that calls the backend, the timeout of the poll's context, and
\* the select between ctx.Done() and done.
\* ---------------------------------------------------------------------

\* The poll call of a poller and its goroutine: "none" when neither exists,
\* "select" while poll waits, "abandoned" when poll has returned and its
\* goroutine is still inside backend.GetWorkflowTask.
NoPoll == [pc |-> "none", timeout |-> FALSE, done |-> FALSE, task |-> NoTask, err |-> FALSE]

InitPollSpec ==
    /\ InitBackend
    /\ InitWorker(DefaultOptions)
    /\ call = [p \in startedPollers(WorkflowPollers) |-> NoPoll]

\* poll up to its select: context.WithTimeout, make(chan struct{}), go func.
\* A poller enters poll again once the goroutine of its last poll has ended.
pollEnter(p) ==
    /\ ~panicked
    /\ runPoll[p].pc = "poll"
    /\ call[p].pc = "none"
    /\ call' = [call EXCEPT ![p] = [NoPoll EXCEPT !.pc = "select"]]
    /\ UNCHANGED <<clientVars, workerVars, future, now>>

\* The goroutine: task, err = ww.backend.GetWorkflowTask(ctx); close(done).
\* The backend returns a task it leased, nothing, or an error, whatever the
\* state of ctx at that moment.
GetWorkflowTaskReturn(p, out, i) ==
    /\ ~panicked
    /\ call[p].pc \in {"select", "abandoned"}
    /\ ~call[p].done
    /\ out = "task" => polled < MaxWorkerTasks
    /\ polled' = IF out = "task" THEN polled + 1 ELSE polled
    /\ call' = [call EXCEPT ![p] =
                  IF call[p].pc = "abandoned"
                  THEN NoPoll
                  ELSE [@ EXCEPT !.done = TRUE,
                                 !.task = IF out = "task"
                                          THEN [ID |-> polled + 1, WorkflowInstance |-> i]
                                          ELSE NoTask,
                                 !.err = (out = "error")]]
    /\ UNCHANGED <<clientVars, future, now>>
    /\ UNCHANGED <<options, ctx, eviction, runPoll, runDispatcher, sem, wg, handler,
                   heartbeatTask, cache, panicked, executors>>

\* The timeout of context.WithTimeout(ctx, timeout) passes.
pollDeadline(p) ==
    /\ ~panicked
    /\ call[p].pc = "select"
    /\ ~call[p].timeout
    /\ call' = [call EXCEPT ![p].timeout = TRUE]
    /\ UNCHANGED <<clientVars, workerVars, future, now>>

\* ctx.Done() of poll's context is ready: the timeout passed or the root
\* context was cancelled.
pollCtxDone(p) == call[p].timeout \/ ctx = "done"

\* poll's select, case <-ctx.Done(): return nil, nil; runPoll has nothing to
\* push and starts over.
pollSelectCtxDone(p) ==
    /\ ~panicked
    /\ call[p].pc = "select"
    /\ pollCtxDone(p)
    /\ runPoll' = [runPoll EXCEPT ![p] = [pc |-> "select", task |-> NoTask]]
    /\ call' = [call EXCEPT ![p] = IF call[p].done THEN NoPoll
                                   ELSE [@ EXCEPT !.pc = "abandoned"]]
    /\ UNCHANGED <<clientVars, future, now>>
    /\ UNCHANGED <<options, ctx, eviction, runDispatcher, sem, wg, handler,
                   heartbeatTask, cache, panicked, polled, executors>>

\* poll's select, case <-done: return task, err; runPoll logs an error, or
\* goes on to send a task that is not nil on the internal channel.
pollSelectDone(p) ==
    /\ ~panicked
    /\ call[p].pc = "select"
    /\ call[p].done
    /\ runPoll' = [runPoll EXCEPT ![p] =
                     IF ~call[p].err /\ call[p].task # NoTask
                     THEN [pc |-> "push", task |-> call[p].task]
                     ELSE [pc |-> "select", task |-> NoTask]]
    /\ call' = [call EXCEPT ![p] = NoPoll]
    /\ UNCHANGED <<clientVars, future, now>>
    /\ UNCHANGED <<options, ctx, eviction, runDispatcher, sem, wg, handler,
                   heartbeatTask, cache, panicked, polled, executors>>

NextPoll ==
    \/ Start
    \/ cancel
    \/ \E p \in DOMAIN runPoll : runPollSelect(p)
    \/ \E p \in DOMAIN runPoll : pollEnter(p)
    \/ \E p \in DOMAIN runPoll, out \in pollOutcomes, i \in Instances :
          GetWorkflowTaskReturn(p, out, i)
    \/ \E p \in DOMAIN runPoll : pollDeadline(p)
    \/ \E p \in DOMAIN runPoll : pollSelectCtxDone(p)
    \/ \E p \in DOMAIN runPoll : pollSelectDone(p)
    \/ \E p \in DOMAIN runPoll : runDispatcherReceive(p)
    \/ runDispatcherDone
    \/ runDispatcherSpawn
    \/ \E k \in 1..MaxWorkerTasks, got \in UNION {cacheGet(cache, i) : i \in Instances},
          newErr \in BOOLEAN, storeErr \in BOOLEAN : getExecutor(k, got, newErr, storeErr)
    \/ \E k \in 1..MaxWorkerTasks, err \in BOOLEAN : handleTask(k, err)
    \/ \E k \in 1..MaxWorkerTasks, err \in BOOLEAN : handle(k, err)
    \/ \E i \in Instances : evict(i)
    \/ StartEvictionDone

\* The worker with poll taken apart, under options that start no heartbeat
\* and set no limit on parallel handlers.
SpecPoll == InitPollSpec /\ [][NextPoll]_vars

\* The tasks some goroutine of the worker holds or has handled: in the
\* variable of a poll that has not returned, with a poller on its way to the
\* channel, with the dispatcher, or with a handler.
HeldTasks ==
    {call[p].task.ID : p \in {q \in DOMAIN call : call[q].task # NoTask}}
        \cup {runPoll[p].task.ID : p \in {q \in DOMAIN runPoll : runPoll[q].pc = "push"}}
        \cup (IF runDispatcher.pc = "sem" THEN {runDispatcher.t.ID} ELSE {})
        \cup {k \in 1..MaxWorkerTasks : handler[k].pc # "none"}

\* C33: every task backend.GetWorkflowTask returned to the goroutine of a
\* poll is handed to runPoll and pushed onto the internal channel, also
\* when the timeout or the cancellation fires as the backend call returns.
C33_NoTaskDropped == ~panicked => \A k \in 1..polled : k \in HeldTasks

\* ---------------------------------------------------------------------
\* Slot accounting of the dispatcher's semaphore.
\* ---------------------------------------------------------------------

\* C34, while the process lives: with MaxParallelWorkflowTasks positive the
\* occupied slots are as many as the handlers that run.
C34_SlotsWhileAlive ==
    (~panicked /\ options.MaxParallelWorkflowTasks > 0) =>
        sem = Cardinality(RunningHandlers)

\* C34, in every state: the occupied slots are as many as the handlers
\* admitted and not yet terminated.
C34_SlotsAreHandlers ==
    options.MaxParallelWorkflowTasks > 0 => sem = Cardinality(RunningHandlers)

\* C34, release: a handler that terminates, for whatever reason, releases
\* its slot in that step.
C34_TerminationReleasesSlot ==
    [][\A k \in 1..MaxWorkerTasks :
          (/\ options.MaxParallelWorkflowTasks > 0
           /\ k \in RunningHandlers
           /\ handler'[k].pc \notin {"getExecutor", "ExecuteTask", "CompleteWorkflowTask"})
              => sem' = sem - 1]_vars

\* C34: with MaxParallelWorkflowTasks > 0 the number of occupied semaphore
\* slots equals, in every reachable state, the number of handlers admitted
\* and not yet terminated, and every handler that terminates releases its
\* slot, so that no slot stays occupied without a running handler.
C34_SlotAccounting ==
    /\ []C34_SlotsAreHandlers
    /\ C34_TerminationReleasesSlot


====
